---- MODULE Spec2Model ----
(***************************************************************************)
(* A model of TetherAI's streaming core: the SSE frame decoder             *)
(* (sseToIterable), the vendor adapters' streamChat, and the retry and     *)
(* fallback middleware.                                                    *)
(*                                                                         *)
(* Text is a sequence of code points and a byte buffer a sequence of       *)
(* integers 0..255.                                                        *)
(***************************************************************************)
EXTENDS Integers, Sequences, FiniteSets, TLC

VARIABLES
    \* ---- sseToIterable (one decoder instance) ----
    input,      \* the whole byte sequence the response body will deliver
    rest,       \* the bytes the reader has not delivered yet
    utf8,       \* the TextDecoder's state (a partial multi-byte character)
    buffer,     \* `buffer`: the text not yet split into events
    out,        \* the payload strings yielded so far
    dpc,        \* "reading" | "done"
    cuts,       \* where buffer boundaries have fallen: "char", "newline"
    \* ---- isTransientError applied to one error value ----
    err,        \* the error value
    variant,    \* "shared" (middleware.ts) | "legacy" (openai/src/middleware/retry.ts)
    verdict,    \* "unset" | "transient" | "permanent"
    \* ---- one call of withRetry(provider, opts).streamChat ----
    retries,    \* opts.retries ?? 2
    baseMs,     \* opts.baseMs ?? 300
    factor,     \* opts.factor ?? 2
    jitter,     \* opts.jitter ?? true
    classify,   \* which isTransientError this withRetry was built with
    rpc,        \* "call" | "iter" | "sleep" | "done"
    attempt,    \* `attempt`
    calls,      \* how often provider.streamChat has been invoked
    cur,        \* chunks the current attempt has yielded
    hist,       \* how each attempt ended, in order
    delivered,  \* the chunks yielded to the caller: <<attempt, index>>
    waits,      \* the delays slept, in order
    aborted,    \* signal?.aborted
    outcome,    \* "pending" | "returned" | "threw"
    thrown,     \* the error thrown to the caller
    \* ---- withFallback(providers, opts) and one call of its streamChat ----
    nprov,      \* providers.length
    observer,   \* whether opts.onFallback is set
    fpc,        \* "wrap" | "rejected" | "call" | "iter" | "done"
    idx,        \* `i`
    invoked,    \* the providers whose streamChat was invoked, in order
    active,     \* the providers whose attempt is in progress
    fcur,       \* chunks the current attempt has yielded
    fhist,      \* how each attempt ended, in order
    fdelivered, \* the chunks yielded to the caller: <<provider, index>>
    lastError,  \* `lastError`
    notified,   \* the calls of opts.onFallback: <<error, index>>
    freq,       \* the request the caller passed to streamChat
    fsent,      \* the request each invocation of a provider was given, in order
    foutcome,   \* "pending" | "returned" | "threw"
    fthrown,    \* the error thrown to the caller
    \* ---- one call of an adapter's streamChat(req, signal) ----
    dialect,    \* "openai" | "mistral" | "anthropic"
    http,       \* what fetch does: the response's status, or NoResponse
    hasBody,    \* res.body is not null
    frames,     \* the frames of the response body not read yet
    bodyEnd,    \* after the last frame the reader reports "eof" or an "error"
    apc,        \* streamChat: "fetch" | "stream" | "flushed" | "done";
                \* chat: "chatFetch" | "chatJson" | "chatDone"
    autf8,      \* the decoder's TextDecoder state
    abuffer,    \* the decoder's `buffer`
    queue,      \* payloads the decoder has ready for the adapter's loop
    emitted,    \* the chunks yielded to the caller
    aoutcome,   \* "pending" | "returned" | "threw"
    athrown,    \* the error thrown to the caller
    body,       \* the frames of the whole response body
    errBody,    \* what res.json() gives: the body of a response that is not ok,
                \* or of the response to chat
    amessage,   \* the message of the error thrown to the caller
    fetches,    \* how often doFetch has been called
    \* the network call of an adapter's streamChat or chat
    adapter,    \* "openai" | "mistral" | "anthropic" | "grok" | "local"
    method,     \* "streamChat" | "chat"
    supplied,   \* the caller passed a signal
    timeout,    \* the adapter's `timeout` option, in ticks
    now,        \* the time, in ticks
    callerSig,  \* the caller's signal is aborted
    ctlSig,     \* the signal of the method's own AbortController is aborted
    helperSig,  \* the signal of the fetch helper's AbortController is aborted
    ctlTimer,   \* the method's timer: "none" | "armed" | "fired" | "cleared"
    helperTimer,\* the fetch helper's timer, likewise
    call,       \* the fetch: "idle" | "pending" | "resolved" | "rejected"
    abortedBy,  \* the signal that aborted the fetch, "none" if none did
    \* ---- the provider objects an application builds and uses ----
    built,      \* the objects built so far, in order
    used,       \* the last use of a capability: the object, the capability, the result
    \* ---- the vendor payload an adapter derives from a ChatRequest ----
    vendor,     \* the adapter
    req,        \* the caller's ChatRequest: systemPrompt, and where its messages array is
    heap,       \* the arrays: address -> sequence of messages
    given,      \* the systemPrompt and the messages as the caller passed them
    requestBody,\* the payload being built: system, and where its messages array is
    sent,       \* what JSON.stringify(requestBody) put in the request
    ppc,        \* "build" | "inject" | "send" | "done"
    \* ---- two streamChat calls interleaved on one object ----
    ckind,      \* the object: "retry" (withRetry), "fallback" (withFallback), "adapter"
    plan,       \* per call, what its providers or its response body will do
    script,     \* per call, the part of its plan not played yet
    local,      \* per call, its local variable: `attempt`, `i`, or the decoder's state
    result,     \* per call, what it invoked or yielded, and how it ended
    cpc,        \* per call, "run" | "done"
    \* ---- getModels, validateModel, getMaxTokens of one adapter ----
    madapter,   \* the adapter the three methods belong to
    modelId,    \* the identifier the caller asks about
    lookups,    \* the validateModel / getMaxTokens calls made, with what they returned
    mfetches,   \* the requests issued so far
    mhttp,      \* what fetch will do for /models: NoResponse (rejects) or a status
    mbody,      \* what `await res.json()` gives for that response
    mthrown,    \* the error getModels threw, NoError if none
    mlist,      \* the list getModels returned
    mpc,        \* getModels: "ready" | "responded" | "done"
    \* ---- one streamChat call on a wrapper, or on wrappers composed ----
    souter,     \* "fallback": withFallback(list); "none": the list's one element itself
    swraps,     \* the list: per provider whether withRetry wraps it, and its `retries`
    si,         \* withFallback's `i`
    sattempt,   \* `attempt` of the withRetry call in progress
    slast,      \* withFallback's `lastError`
    sinv,       \* the invocations of the providers' streamChat, with the signal's state
    sdel,       \* the chunks the consumer has received
    scur,       \* the chunks the attempt in progress has yielded
    shist,      \* the attempts that have ended, and how: "ok", "threw", "left"
    swaits,     \* the backoff sleeps begun
    snotes,     \* the calls of onFallback
    ssig,       \* whether the caller's signal is aborted
    spc,        \* "call" | "iter" | "sleep" | "done"
    sout,       \* "pending" | "returned" | "threw" | "abandoned"
    sthrown     \* the error the consumer receives

decVars == <<input, rest, utf8, buffer, out, dpc, cuts>>
clsVars == <<err, variant, verdict>>
retVars == <<retries, baseMs, factor, jitter, classify, rpc, attempt, calls, cur, hist, delivered,
             waits, aborted, outcome, thrown>>
fbVars == <<nprov, observer, fpc, idx, invoked, active, fcur, fhist, fdelivered,
            lastError, notified, freq, fsent, foutcome, fthrown>>
adVars == <<dialect, http, hasBody, frames, bodyEnd, apc, autf8, abuffer, queue,
            emitted, aoutcome, athrown, body, errBody, amessage, fetches>>
canVars == <<adapter, method, supplied, timeout, now, callerSig, ctlSig, helperSig,
             ctlTimer, helperTimer, call, abortedBy>>
compVars == <<built, used>>
payVars == <<vendor, req, heap, given, requestBody, sent, ppc>>
conVars == <<ckind, plan, script, local, result, cpc>>
modVars == <<madapter, modelId, lookups, mfetches, mhttp, mbody, mthrown, mlist, mpc>>
stVars == <<souter, swraps, si, sattempt, slast, sinv, sdel, scur, shist, swaits, snotes,
            ssig, spc, sout, sthrown>>
vars == <<decVars, clsVars, retVars, fbVars, adVars, canVars, compVars, payVars, conVars, modVars, stVars>>

-----------------------------------------------------------------------------
(* Bounds of the model. *)

\* the longest input of the decoder, in tokens of DecTokens
MaxTokens == 4

-----------------------------------------------------------------------------
(* Characters. *)

LF == 10
CR == 13
SP == 32
ReplacementChar == 65533

\* "data:" as code points
DataPrefix == <<100, 97, 116, 97, 58>>

\* ECMAScript WhiteSpace and LineTerminator code points: what trim() and
\* trimStart() strip.
IsJsSpace(c) ==
    \/ c \in {9, 10, 11, 12, 13, 32, 160, 5760, 8232, 8233, 8239, 8287, 12288, 65279}
    \/ (c >= 8192 /\ c <= 8202)

\* the least and the greatest element of a non-empty set of integers
Least(S) == CHOOSE i \in S : \A j \in S : i <= j
Greatest(S) == CHOOSE i \in S : \A j \in S : i >= j

\* the indices of s that hold a character trim() keeps
Kept(s) == {i \in 1..Len(s) : ~IsJsSpace(s[i])}

TrimStart(s) ==
    IF Kept(s) = {} THEN <<>> ELSE SubSeq(s, Least(Kept(s)), Len(s))

TrimEnd(s) ==
    IF Kept(s) = {} THEN <<>> ELSE SubSeq(s, 1, Greatest(Kept(s)))

Trim(s) == TrimEnd(TrimStart(s))

StartsWith(s, p) == Len(s) >= Len(p) /\ SubSeq(s, 1, Len(p)) = p

\* s.slice(n)
Slice(s, n) == SubSeq(s, n + 1, Len(s))

-----------------------------------------------------------------------------
(* new TextDecoder() and decoder.decode(value, {stream: true}): the UTF-8   *)
(* decoder of the Encoding standard.  Its state outlives each call.        *)

Utf8Init == [cp |-> 0, need |-> 0, seen |-> 0, lo |-> 128, hi |-> 191]

\* One byte with no character pending.
Utf8Lead(b) ==
    IF b <= 127 THEN [st |-> Utf8Init, chars |-> <<b>>]
    ELSE IF b >= 194 /\ b <= 223
    THEN [st |-> [Utf8Init EXCEPT !.need = 1, !.cp = b - 192], chars |-> <<>>]
    ELSE IF b >= 224 /\ b <= 239
    THEN [st |-> [Utf8Init EXCEPT !.need = 2, !.cp = b - 224,
                                  !.lo = IF b = 224 THEN 160 ELSE 128,
                                  !.hi = IF b = 237 THEN 159 ELSE 191],
          chars |-> <<>>]
    ELSE IF b >= 240 /\ b <= 244
    THEN [st |-> [Utf8Init EXCEPT !.need = 3, !.cp = b - 240,
                                  !.lo = IF b = 240 THEN 144 ELSE 128,
                                  !.hi = IF b = 244 THEN 143 ELSE 191],
          chars |-> <<>>]
    ELSE [st |-> Utf8Init, chars |-> <<ReplacementChar>>]

\* One byte in state st: the new state and the code points it completes.
Utf8Byte(st, b) ==
    IF st.need = 0 THEN Utf8Lead(b)
    ELSE IF b < st.lo \/ b > st.hi
    THEN \* the pending character is malformed; the byte is read again
         [st |-> Utf8Lead(b).st, chars |-> <<ReplacementChar>> \o Utf8Lead(b).chars]
    ELSE IF st.seen + 1 = st.need
    THEN [st |-> Utf8Init, chars |-> <<st.cp * 64 + (b - 128)>>]
    ELSE [st |-> [st EXCEPT !.cp = st.cp * 64 + (b - 128), !.seen = st.seen + 1,
                            !.lo = 128, !.hi = 191],
          chars |-> <<>>]

\* the result of decoding two runs of bytes one after the other
Utf8Then(first, second) ==
    [st |-> second.st, chars |-> first.chars \o second.chars]

\* The bytes in order from state st: the state after the last byte and the
\* code points completed.  The bytes are fed one at a time, left to right;
\* the sequence is halved, and the left half bound to its value before the
\* right half starts from it, only to keep the evaluation shallow.
RECURSIVE Utf8Decode(_, _)
Utf8Decode(st, bytes) ==
    IF bytes = <<>> THEN [st |-> st, chars |-> <<>>]
    ELSE IF Len(bytes) = 1 THEN Utf8Byte(st, bytes[1])
    ELSE LET half == Len(bytes) \div 2
         IN CHOOSE r \in {Utf8Then(left, Utf8Decode(left.st, SubSeq(bytes, half + 1, Len(bytes)))) :
                             left \in {Utf8Decode(st, SubSeq(bytes, 1, half))}} : TRUE

\* A decoder made anew for each call to decode: what decode(value) without
\* {stream: true} amounts to.
Utf8DecodeReset(st, bytes) ==
    LET r == Utf8Decode(Utf8Init, bytes)
    IN [st |-> Utf8Init,
        chars |-> IF r.st.need = 0 THEN r.chars ELSE r.chars \o <<ReplacementChar>>]

DecoderDecode(st, bytes) == Utf8Decode(st, bytes)

-----------------------------------------------------------------------------
(* String.prototype.split on the two regular expressions of sse.ts.        *)

\* the length of the match of /\r?\n/ at index i of s, 0 when there is none
NewlineAt(s, i) ==
    IF i <= Len(s) /\ s[i] = LF THEN 1
    ELSE IF i + 1 <= Len(s) /\ s[i] = CR /\ s[i + 1] = LF THEN 2
    ELSE 0

\* the length of the match of /\r?\n\r?\n/ at index i of s, 0 when there is none
DelimiterAt(s, i) ==
    LET a == NewlineAt(s, i)
    IN IF a = 0 THEN 0
       ELSE LET b == NewlineAt(s, i + a) IN IF b = 0 THEN 0 ELSE a + b

\* s.split(/\r?\n\r?\n/) from index from on: the leftmost match ends the
\* current part and the search resumes after it
RECURSIVE SplitEventsFrom(_, _)
SplitEventsFrom(s, from) ==
    LET matches == {i \in from..Len(s) : DelimiterAt(s, i) > 0}
    IN IF matches = {} THEN <<SubSeq(s, from, Len(s))>>
       ELSE LET i == Least(matches)
            IN <<SubSeq(s, from, i - 1)>> \o SplitEventsFrom(s, i + DelimiterAt(s, i))

SplitEvents(s) == SplitEventsFrom(s, 1)

\* s.split(/\r?\n/)
RECURSIVE SplitLinesFrom(_, _)
SplitLinesFrom(s, from) ==
    LET matches == {i \in from..Len(s) : NewlineAt(s, i) > 0}
    IN IF matches = {} THEN <<SubSeq(s, from, Len(s))>>
       ELSE LET i == Least(matches)
            IN <<SubSeq(s, from, i - 1)>> \o SplitLinesFrom(s, i + NewlineAt(s, i))

SplitLines(s) == SplitLinesFrom(s, 1)

-----------------------------------------------------------------------------
(* sseToIterable *)

\* the body of `for (const line of lines)`: the payload of one line, if any
LinePayload(line) ==
    LET trimmed == TrimStart(line)
    IN IF StartsWith(trimmed, DataPrefix) THEN <<Trim(Slice(trimmed, 5))>> ELSE <<>>

RECURSIVE ScanLines(_)
ScanLines(lines) ==
    IF lines = <<>> THEN <<>>
    ELSE LinePayload(Head(lines)) \o ScanLines(Tail(lines))

\* the payloads of one complete event
EventPayloads(chunk) == ScanLines(SplitLines(chunk))

\* `for (let i = 0; i < parts.length - 1; i++)`: every part but the last
RECURSIVE CompleteParts(_)
CompleteParts(parts) ==
    IF Len(parts) <= 1 THEN <<>>
    ELSE EventPayloads(Head(parts)) \o CompleteParts(Tail(parts))

\* `buffer = parts[parts.length - 1]`
KeepLast(parts) == parts[Len(parts)]

\* the buffer dropped after each read instead of kept
KeepNothing(parts) == <<>>

RemainingBuffer(parts) == KeepLast(parts)

\* One pass of the while loop with a value read: the decoder state, the
\* buffer and the payloads yielded.
ReadStep(st, buf, value) ==
    LET dec == DecoderDecode(st, value)
        parts == SplitEvents(buf \o dec.chars)
    IN [utf8 |-> dec.st, buffer |-> RemainingBuffer(parts),
        yielded |-> CompleteParts(parts)]

\* a decoder that ends without looking at its buffer
FlushNothing(buf) == <<>>

\* After the loop: the flush of the trailing buffer.
FlushTrailing(buf) ==
    LET trailing == Trim(buf)
    IN IF Len(trailing) > 0 THEN ScanLines(SplitLines(trailing)) ELSE <<>>

-----------------------------------------------------------------------------
(* Error values.  An error is the class that raised it and its numeric     *)
(* status, statusCode and code properties; NoNum stands for a property     *)
(* that is absent or is not a number.                                      *)

NoNum == -1

\* a property that is not set
Undefined == "undefined"

\* no request object, no payload yet
NoRequest == [system |-> Undefined, messages |-> 0]
NoPayload == [system |-> Undefined, messages |-> <<>>]

\* no capability has been used yet
NoUse == [on |-> 0, cap |-> "none", result |-> "none"]

\* `await res.json()` rejects: the body is not JSON
NoJson == [json |-> "throws", error |-> "absent", message |-> "absent", text |-> ""]

NoError == [cls |-> "none", status |-> NoNum, statusCode |-> NoNum, code |-> NoNum]

\* new OpenAIError(message, status): the status of a non-success response
OpenAIErrors ==
    { [cls |-> "OpenAIError", status |-> s, statusCode |-> NoNum, code |-> NoNum] :
        s \in {400, 401, 404, 429, 500, 503} }

\* any other error: another vendor's error class, a transport error, an
\* Error with properties assigned to it
OtherErrors ==
    { [cls |-> "Error", status |-> s, statusCode |-> sc, code |-> c] :
        s \in {NoNum, 0, 400, 404, 429, 499, 500, 503},
        sc \in {NoNum, 404, 500},
        c \in {NoNum, 404, 500} }

ErrorValues == OpenAIErrors \cup OtherErrors

\* `(typeof e.p === "number" && e.p) || rest`: a number that is 0 is falsy
NumberOr(p, other) == IF p # NoNum /\ p # 0 THEN p ELSE other

\* isTransientError of the shared middleware
IsTransientShared(e) ==
    LET status == NumberOr(e.status, NumberOr(e.statusCode, NumberOr(e.code, NoNum)))
    IN IF status # NoNum THEN status = 429 \/ status >= 500 ELSE TRUE

\* isTransientError of packages/provider/openai/src/middleware/retry.ts
IsTransientLegacy(e) ==
    IF e.cls = "OpenAIError" THEN e.status = 429 \/ e.status >= 500 ELSE TRUE

isTransientError(v, e) ==
    IF v = "legacy" THEN IsTransientLegacy(e) ELSE IsTransientShared(e)

-----------------------------------------------------------------------------
(* The parts of the state a specification does not use stay as they are.   *)

DecIdle ==
    /\ input = <<>> /\ rest = <<>> /\ utf8 = Utf8Init /\ buffer = <<>>
    /\ out = <<>> /\ dpc = "idle" /\ cuts = {}

ClsIdle == err = NoError /\ variant = "shared" /\ verdict = "unset"

RetIdle ==
    /\ retries = 0 /\ baseMs = 0 /\ factor = 0 /\ jitter = FALSE /\ classify = "shared" /\ rpc = "idle"
    /\ attempt = 0 /\ calls = 0 /\ cur = 0 /\ hist = <<>> /\ delivered = <<>>
    /\ waits = <<>> /\ aborted = FALSE /\ outcome = "pending" /\ thrown = NoError

FbIdle ==
    /\ nprov = 0 /\ observer = FALSE /\ fpc = "idle" /\ idx = 0 /\ invoked = <<>>
    /\ active = {} /\ fcur = 0 /\ fhist = <<>> /\ fdelivered = <<>>
    /\ lastError = NoError /\ notified = <<>> /\ foutcome = "pending"
    /\ fthrown = NoError /\ freq = "none" /\ fsent = <<>>

AdIdle ==
    /\ dialect = "none" /\ http = 0 /\ hasBody = FALSE /\ frames = <<>>
    /\ bodyEnd = "eof" /\ apc = "idle" /\ autf8 = Utf8Init /\ abuffer = <<>>
    /\ queue = <<>> /\ emitted = <<>> /\ aoutcome = "pending" /\ athrown = NoError
    /\ body = <<>> /\ errBody = NoJson /\ amessage = "" /\ fetches = 0

CanIdle ==
    /\ adapter = "none" /\ method = "none" /\ supplied = FALSE /\ timeout = 0
    /\ now = 0 /\ callerSig = FALSE /\ ctlSig = FALSE /\ helperSig = FALSE
    /\ ctlTimer = "none" /\ helperTimer = "none" /\ call = "idle"
    /\ abortedBy = "none"

StIdle ==
    /\ souter = "none" /\ swraps = <<>> /\ si = 0 /\ sattempt = 0 /\ slast = NoError
    /\ sinv = <<>> /\ sdel = <<>> /\ scur = 0 /\ shist = <<>> /\ swaits = 0
    /\ snotes = <<>> /\ ssig = FALSE /\ spc = "idle" /\ sout = "pending"
    /\ sthrown = NoError

ModIdle ==
    /\ madapter = "none" /\ modelId = "" /\ lookups = <<>> /\ mfetches = 0
    /\ mhttp = 0 /\ mbody = "none" /\ mthrown = NoError /\ mlist = <<>>
    /\ mpc = "idle"

ConIdle ==
    /\ ckind = "none" /\ plan = <<>> /\ script = <<>> /\ local = <<>>
    /\ result = <<>> /\ cpc = <<>>

PayIdle ==
    /\ vendor = "none" /\ req = NoRequest /\ heap = <<>> /\ given = NoPayload
    /\ requestBody = NoRequest /\ sent = NoPayload /\ ppc = "idle"

CompIdle == built = <<>> /\ used = NoUse

-----------------------------------------------------------------------------
(* The decoder as a state machine: the reader hands over the body in        *)
(* buffers of any size.                                                    *)

\* "data:", a space, the two newline characters and a two-byte character
DecTokens == {DataPrefix, <<SP>>, <<LF>>, <<CR>>, <<195, 169>>}

RECURSIVE TokenStrings(_)
TokenStrings(n) ==
    IF n = 0 THEN {<<>>}
    ELSE LET shorter == TokenStrings(n - 1)
         IN shorter \cup {s \o t : s \in shorter, t \in DecTokens}

\* longer bodies: CRLF framing, two events, a trailing line with no delimiter
DecSamples ==
    { DataPrefix \o <<SP, 195, 169, CR, LF, CR, LF>>,
      DataPrefix \o <<195, 169, LF, LF>> \o DataPrefix \o <<SP, 195, 169, LF, LF>>,
      DataPrefix \o <<195, 169, CR, LF, CR, LF>> \o DataPrefix \o <<SP, 195, 169>>,
      <<195, 169, LF>> \o DataPrefix \o <<195, 169, LF, CR, LF, SP>> \o DataPrefix }

DecInit ==
    /\ input \in TokenStrings(MaxTokens) \cup DecSamples
    /\ rest = input
    /\ utf8 = Utf8Init
    /\ buffer = <<>>
    /\ out = <<>>
    /\ dpc = "reading"
    /\ cuts = {}
    /\ ClsIdle /\ RetIdle /\ FbIdle /\ AdIdle /\ CanIdle /\ CompIdle /\ PayIdle /\ ConIdle /\ ModIdle /\ StIdle

\* `const { value, done } = await reader.read()` with done = false
DecRead ==
    /\ dpc = "reading"
    /\ \E n \in 1..Len(rest) :
          LET step == ReadStep(utf8, buffer, SubSeq(rest, 1, n))
          IN /\ rest' = SubSeq(rest, n + 1, Len(rest))
             /\ utf8' = step.utf8
             /\ buffer' = step.buffer
             /\ out' = out \o step.yielded
             /\ cuts' = cuts
                  \cup (IF step.utf8.need > 0 THEN {"char"} ELSE {})
                  \cup (IF step.buffer # <<>> /\ step.buffer[Len(step.buffer)] \in {LF, CR}
                        THEN {"newline"} ELSE {})
    /\ UNCHANGED <<input, dpc>>
    /\ UNCHANGED <<clsVars, retVars, fbVars, adVars, canVars, compVars, payVars, conVars, modVars, stVars>>

\* reader.read() with done = true: the loop breaks and the tail is flushed
DecEnd ==
    /\ dpc = "reading"
    /\ rest = <<>>
    /\ out' = out \o FlushTrailing(buffer)
    /\ dpc' = "done"
    /\ UNCHANGED <<input, rest, utf8, buffer, cuts>>
    /\ UNCHANGED <<clsVars, retVars, fbVars, adVars, canVars, compVars, payVars, conVars, modVars, stVars>>

DecNext == DecRead \/ DecEnd

SpecDecoder == DecInit /\ [][DecNext]_vars

\* the body delivered as the single buffer `bytes`
DecodeWhole(bytes) ==
    IF bytes = <<>> THEN FlushTrailing(<<>>)
    ELSE LET step == ReadStep(Utf8Init, <<>>, bytes)
         IN step.yielded \o FlushTrailing(step.buffer)

-----------------------------------------------------------------------------
(* isTransientError as a state machine: one error value, classified once.   *)

ClsInit ==
    /\ err \in ErrorValues
    /\ variant \in {"shared", "legacy"}
    /\ verdict = "unset"
    /\ DecIdle /\ RetIdle /\ FbIdle /\ AdIdle /\ CanIdle /\ CompIdle /\ PayIdle /\ ConIdle /\ ModIdle /\ StIdle

Classify ==
    /\ verdict = "unset"
    /\ verdict' = IF isTransientError(variant, err) THEN "transient" ELSE "permanent"
    /\ UNCHANGED <<err, variant>>
    /\ UNCHANGED <<decVars, retVars, fbVars, adVars, canVars, compVars, payVars, conVars, modVars, stVars>>

ClsNext == Classify

SpecClassify == ClsInit /\ [][ClsNext]_vars

-----------------------------------------------------------------------------
(* withRetry(provider, opts).streamChat(req, signal).  The wrapped         *)
(* provider is any provider: each of its attempts yields some chunks and   *)
(* then returns or throws.                                                 *)

\* most retries configured
MaxRetries == 2
\* most chunks one attempt of a provider yields
MaxChunks == 1
\* Math.random() takes the values k / RandomSteps, k < RandomSteps
RandomSteps == 2

DefaultBaseMs == 300
DefaultFactor == 2

\* the errors a wrapped provider throws
ThrownErrors ==
    { [cls |-> "Error", status |-> 500, statusCode |-> NoNum, code |-> NoNum],
      [cls |-> "Error", status |-> 404, statusCode |-> NoNum, code |-> NoNum],
      [cls |-> "OpenAIError", status |-> 401, statusCode |-> NoNum, code |-> NoNum],
      [cls |-> "Error", status |-> NoNum, statusCode |-> NoNum, code |-> NoNum] }

\* a catch block that allows one retry more than `retries`
GiveUpLate(n, max, v, e, sig) == n > max + 1 \/ ~isTransientError(v, e) \/ sig

\* a catch block that counts the first invocation as a retry
GiveUpEarly(n, max, v, e, sig) == n >= max \/ ~isTransientError(v, e) \/ sig

\* a catch block that does not look at the signal
GiveUpIgnoresSignal(n, max, v, e, sig) == n > max \/ ~isTransientError(v, e)

\* `attempt > retries || !isTransientError(e) || signal?.aborted`
GiveUp(n, max, v, e, sig) == n > max \/ ~isTransientError(v, e) \/ sig

\* the values of opts.baseMs and opts.factor
BaseMsValues == {DefaultBaseMs, 7}
Factors == {DefaultFactor, 3}

\* a delay that grows with the attempt number, not with attempt - 1
DelayOffByOne(b, f, n) == b * f ^ n

\* `baseMs * Math.pow(factor, attempt - 1)`
Delay(b, f, n) == b * f ^ (n - 1)

\* `jitter ? Math.floor(delay * (0.8 + Math.random() * 0.4)) : delay`
Waits(b, f, n, jit) ==
    IF jit
    THEN { (Delay(b, f, n) * (8 * RandomSteps + 4 * k)) \div (10 * RandomSteps) :
             k \in 0..(RandomSteps - 1) }
    ELSE { Delay(b, f, n) }

RetInit ==
    /\ retries \in 0..MaxRetries
    /\ baseMs \in BaseMsValues
    /\ factor \in Factors
    /\ jitter \in BOOLEAN
    /\ classify \in {"shared", "legacy"}
    /\ rpc = "call"
    /\ attempt = 0
    /\ calls = 0
    /\ cur = 0
    /\ hist = <<>>
    /\ delivered = <<>>
    /\ waits = <<>>
    /\ aborted = FALSE
    /\ outcome = "pending"
    /\ thrown = NoError
    /\ DecIdle /\ ClsIdle /\ FbIdle /\ AdIdle /\ CanIdle /\ CompIdle /\ PayIdle /\ ConIdle /\ ModIdle /\ StIdle

\* a retry that resumes the provider's stream where the failed attempt
\* stopped
RetInvokeResumes ==
    /\ rpc = "call"
    /\ rpc' = "iter"
    /\ calls' = calls + 1
    /\ cur' = cur
    /\ UNCHANGED <<retries, baseMs, factor, jitter, classify, attempt, hist, delivered, waits,
                   aborted, outcome, thrown>>
    /\ UNCHANGED <<decVars, clsVars, fbVars, adVars, canVars, compVars, payVars, conVars, modVars, stVars>>

\* `provider.streamChat(req, signal)` at the head of the for await
RetInvoke ==
    /\ rpc = "call"
    /\ rpc' = "iter"
    /\ calls' = calls + 1
    /\ cur' = 0
    /\ UNCHANGED <<retries, baseMs, factor, jitter, classify, attempt, hist, delivered, waits,
                   aborted, outcome, thrown>>
    /\ UNCHANGED <<decVars, clsVars, fbVars, adVars, canVars, compVars, payVars, conVars, modVars, stVars>>

\* the provider yields a chunk: `yield chunk`
RetYield ==
    /\ rpc = "iter"
    /\ cur < MaxChunks
    /\ cur' = cur + 1
    /\ delivered' = Append(delivered, <<calls, cur + 1>>)
    /\ UNCHANGED <<retries, baseMs, factor, jitter, classify, rpc, attempt, calls, hist, waits,
                   aborted, outcome, thrown>>
    /\ UNCHANGED <<decVars, clsVars, fbVars, adVars, canVars, compVars, payVars, conVars, modVars, stVars>>

\* the provider's stream ends: `return`
RetReturn ==
    /\ rpc = "iter"
    /\ hist' = Append(hist, [end |-> "ok", error |-> NoError, sig |-> aborted,
                            chunks |-> cur])
    /\ rpc' = "done"
    /\ outcome' = "returned"
    /\ UNCHANGED <<retries, baseMs, factor, jitter, classify, attempt, calls, cur, delivered,
                   waits, aborted, thrown>>
    /\ UNCHANGED <<decVars, clsVars, fbVars, adVars, canVars, compVars, payVars, conVars, modVars, stVars>>

\* the provider throws e: the catch block
RetCatch ==
    /\ rpc = "iter"
    /\ \E e \in ThrownErrors :
          /\ attempt' = attempt + 1
          /\ hist' = Append(hist, [end |-> "threw", error |-> e, sig |-> aborted,
                                   chunks |-> cur])
          /\ IF GiveUp(attempt + 1, retries, classify, e, aborted)
             THEN /\ rpc' = "done"
                  /\ outcome' = "threw"
                  /\ thrown' = e
                  /\ waits' = waits
             ELSE /\ rpc' = "sleep"
                  /\ UNCHANGED <<outcome, thrown>>
                  /\ \E w \in Waits(baseMs, factor, attempt + 1, jitter) : waits' = Append(waits, w)
    /\ UNCHANGED <<retries, baseMs, factor, jitter, classify, calls, cur, delivered, aborted>>
    /\ UNCHANGED <<decVars, clsVars, fbVars, adVars, canVars, compVars, payVars, conVars, modVars, stVars>>

\* `await sleep(wait)` is over: the loop goes round
RetWake ==
    /\ rpc = "sleep"
    /\ rpc' = "call"
    /\ UNCHANGED <<retries, baseMs, factor, jitter, classify, attempt, calls, cur, hist, delivered,
                   waits, aborted, outcome, thrown>>
    /\ UNCHANGED <<decVars, clsVars, fbVars, adVars, canVars, compVars, payVars, conVars, modVars, stVars>>

\* the caller aborts its signal
RetAbort ==
    /\ rpc \in {"call", "iter", "sleep"}
    /\ ~aborted
    /\ aborted' = TRUE
    /\ UNCHANGED <<retries, baseMs, factor, jitter, classify, rpc, attempt, calls, cur, hist,
                   delivered, waits, outcome, thrown>>
    /\ UNCHANGED <<decVars, clsVars, fbVars, adVars, canVars, compVars, payVars, conVars, modVars, stVars>>

RetNext == RetInvoke \/ RetYield \/ RetReturn \/ RetCatch \/ RetWake \/ RetAbort

SpecRetry == RetInit /\ [][RetNext]_vars

-----------------------------------------------------------------------------
(* withFallback(providers, opts) and one call of its streamChat(req,       *)
(* signal).  Providers are numbered as in the list, from 0; each attempt   *)
(* of a provider yields some chunks and then returns or throws.            *)

\* most providers in the list
MaxProviders == 3

\* a wrapper that withholds a chunk whose position in its provider's stream
\* the caller has already received from an earlier provider
DeliverOnce(received, chunk) ==
    IF \E j \in 1..Len(received) : received[j][2] = chunk[2]
    THEN received
    ELSE Append(received, chunk)

\* a catch block that keeps the first error it has seen
KeepFirstError(last, e) == IF last = NoError THEN e ELSE last

\* a loop that steps over the provider after the one that failed
NextIndexSkips(n) == n + 2

\* the requests a caller passes
Requests == {"q1", "q2"}

\* `yield chunk`: the caller receives the chunk after those it has
Deliver(received, chunk) == Append(received, chunk)

\* `lastError = e`
RecordError(last, e) == e

\* the for loop's `i++`
NextIndex(n) == n + 1

\* an observer that is told of the first failure only
NotifyFirstOnly(seen, obs, e, i) ==
    IF obs /\ seen = <<>> THEN Append(seen, <<e, i>>) ELSE seen

\* `opts.onFallback?.(e, i)`
Notify(seen, obs, e, i) == IF obs THEN Append(seen, <<e, i>>) ELSE seen

FbInit ==
    /\ nprov \in 0..MaxProviders
    /\ observer \in BOOLEAN
    /\ fpc = "wrap"
    /\ idx = 0
    /\ invoked = <<>>
    /\ active = {}
    /\ fcur = 0
    /\ fhist = <<>>
    /\ fdelivered = <<>>
    /\ lastError = NoError
    /\ notified = <<>>
    /\ freq \in Requests
    /\ fsent = <<>>
    /\ foutcome = "pending"
    /\ fthrown = NoError
    /\ DecIdle /\ ClsIdle /\ RetIdle /\ AdIdle /\ CanIdle /\ CompIdle /\ PayIdle /\ ConIdle /\ ModIdle /\ StIdle

\* a withFallback that checks nothing: the empty list is found out by the
\* loop of streamChat
FbWrapUnchecked ==
    /\ fpc = "wrap"
    /\ fpc' = "call"
    /\ UNCHANGED <<freq, fsent, nprov, observer, idx, invoked, active, fcur, fhist, fdelivered,
                   lastError, notified, foutcome, fthrown>>
    /\ UNCHANGED <<decVars, clsVars, retVars, adVars, canVars, compVars, payVars, conVars, modVars, stVars>>

\* withFallback(providers, opts): `if (providers.length === 0) throw`;
\* then the caller calls streamChat: `let lastError; let i = 0`
FbWrap ==
    /\ fpc = "wrap"
    /\ fpc' = IF nprov = 0 THEN "rejected" ELSE "call"
    /\ UNCHANGED <<freq, fsent, nprov, observer, idx, invoked, active, fcur, fhist, fdelivered,
                   lastError, notified, foutcome, fthrown>>
    /\ UNCHANGED <<decVars, clsVars, retVars, adVars, canVars, compVars, payVars, conVars, modVars, stVars>>

\* a loop that opens the next provider's stream together with provider i's
FbInvokeEager ==
    /\ fpc = "call"
    /\ idx < nprov
    /\ fpc' = "iter"
    /\ invoked' = IF idx + 1 < nprov THEN invoked \o <<idx, idx + 1>>
                  ELSE Append(invoked, idx)
    /\ active' = active \cup (IF idx + 1 < nprov THEN {idx, idx + 1} ELSE {idx})
    /\ fsent' = IF idx + 1 < nprov THEN fsent \o <<freq, freq>>
                ELSE Append(fsent, freq)
    /\ fcur' = 0
    /\ UNCHANGED <<freq, nprov, observer, idx, fhist, fdelivered, lastError, notified,
                   foutcome, fthrown>>
    /\ UNCHANGED <<decVars, clsVars, retVars, adVars, canVars, compVars, payVars, conVars, modVars, stVars>>

\* `providers[i].streamChat(req, signal)` at the head of the for await
FbInvoke ==
    /\ fpc = "call"
    /\ idx < nprov
    /\ fpc' = "iter"
    /\ invoked' = Append(invoked, idx)
    /\ active' = active \cup {idx}
    /\ fsent' = Append(fsent, freq)
    /\ fcur' = 0
    /\ UNCHANGED <<freq, nprov, observer, idx, fhist, fdelivered, lastError, notified,
                   foutcome, fthrown>>
    /\ UNCHANGED <<decVars, clsVars, retVars, adVars, canVars, compVars, payVars, conVars, modVars, stVars>>

\* provider i yields a chunk: `yield chunk`
FbYield ==
    /\ fpc = "iter"
    /\ fcur < MaxChunks
    /\ fcur' = fcur + 1
    /\ fdelivered' = Deliver(fdelivered, <<idx, fcur + 1>>)
    /\ UNCHANGED <<freq, fsent, nprov, observer, fpc, idx, invoked, active, fhist, lastError,
                   notified, foutcome, fthrown>>
    /\ UNCHANGED <<decVars, clsVars, retVars, adVars, canVars, compVars, payVars, conVars, modVars, stVars>>

\* a loop that goes on to the next provider after a stream has ended
FbReturnFallsThrough ==
    /\ fpc = "iter"
    /\ fhist' = Append(fhist, [provider |-> idx, end |-> "ok", error |-> NoError,
                               chunks |-> fcur])
    /\ active' = active \ {idx}
    /\ idx' = idx + 1
    /\ fpc' = "call"
    /\ UNCHANGED <<freq, fsent, nprov, observer, invoked, fcur, fdelivered, lastError,
                   notified, foutcome, fthrown>>
    /\ UNCHANGED <<decVars, clsVars, retVars, adVars, canVars, compVars, payVars, conVars, modVars, stVars>>

\* provider i's stream ends: `return`
FbReturn ==
    /\ fpc = "iter"
    /\ fhist' = Append(fhist, [provider |-> idx, end |-> "ok", error |-> NoError,
                               chunks |-> fcur])
    /\ active' = active \ {idx}
    /\ fpc' = "done"
    /\ foutcome' = "returned"
    /\ UNCHANGED <<freq, fsent, nprov, observer, idx, invoked, fcur, fdelivered, lastError,
                   notified, fthrown>>
    /\ UNCHANGED <<decVars, clsVars, retVars, adVars, canVars, compVars, payVars, conVars, modVars, stVars>>

\* provider i throws e: the catch block and the loop's `i++`
FbCatch ==
    /\ fpc = "iter"
    /\ \E e \in ThrownErrors :
          /\ fhist' = Append(fhist, [provider |-> idx, end |-> "threw", error |-> e,
                                     chunks |-> fcur])
          /\ lastError' = RecordError(lastError, e)
          /\ notified' = Notify(notified, observer, e, idx)
    /\ active' = active \ {idx}
    /\ idx' = NextIndex(idx)
    /\ fpc' = "call"
    /\ UNCHANGED <<freq, fsent, nprov, observer, invoked, fcur, fdelivered, foutcome, fthrown>>
    /\ UNCHANGED <<decVars, clsVars, retVars, adVars, canVars, compVars, payVars, conVars, modVars, stVars>>

\* the loop is over: `throw lastError`
FbExhausted ==
    /\ fpc = "call"
    /\ idx >= nprov
    /\ fpc' = "done"
    /\ foutcome' = "threw"
    /\ fthrown' = lastError
    /\ UNCHANGED <<freq, fsent, nprov, observer, idx, invoked, active, fcur, fhist, fdelivered,
                   lastError, notified>>
    /\ UNCHANGED <<decVars, clsVars, retVars, adVars, canVars, compVars, payVars, conVars, modVars, stVars>>

FbNext == FbWrap \/ FbInvoke \/ FbYield \/ FbReturn \/ FbCatch \/ FbExhausted

SpecFallback == FbInit /\ [][FbNext]_vars

-----------------------------------------------------------------------------
(* An adapter's streamChat(req, signal): openAI, mistral (a [DONE]          *)
(* sentinel, choices[0].delta.content) and anthropic (no sentinel,         *)
(* content_block_delta events).                                            *)
(*                                                                         *)
(* A JSON text of the wire is written as one private-use character:        *)
(*   U+E001  {"choices":[{"delta":{"content":"Hi"}}]}                      *)
(*   U+E002  {"choices":[{"delta":{"content":""}}]}                        *)
(*   U+E003  {"type":"content_block_delta",                                *)
(*            "delta":{"type":"text_delta","text":"Hi"}}                   *)
(*   U+E004  {"type":"message_stop"}                                       *)
(* Every other text of the model is not JSON.                              *)

\* most frames in a response body
MaxFrames == 3

DoneText == <<91, 68, 79, 78, 69, 93>>      \* "[DONE]"
HiText == <<72, 105>>                       \* "Hi"
ChoicesHiText == <<57345>>
ChoicesEmptyText == <<57346>>
BlockDeltaText == <<57347>>
MessageStopText == <<57348>>
GarbageText == <<120>>                      \* "x"

\* the bytes of a text on the wire (UTF-8, code points below U+10000)
RECURSIVE Utf8Encode(_)
Utf8Encode(text) ==
    IF text = <<>> THEN <<>>
    ELSE IF Len(text) = 1
    THEN LET c == text[1]
         IN IF c < 128 THEN <<c>>
            ELSE IF c < 2048 THEN <<192 + (c \div 64), 128 + (c % 64)>>
            ELSE <<224 + (c \div 4096), 128 + ((c \div 64) % 64), 128 + (c % 64)>>
    ELSE LET half == Len(text) \div 2
         IN Utf8Encode(SubSeq(text, 1, half)) \o Utf8Encode(SubSeq(text, half + 1, Len(text)))

\* the frame `data: <text>` and the blank line after it
Frame(text) == Utf8Encode(DataPrefix \o <<SP>> \o text \o <<LF, LF>>)

\* a last line `data: <text>` with no blank line after it
OpenFrame(text) == Utf8Encode(DataPrefix \o <<SP>> \o text)

FrameTexts ==
    {ChoicesHiText, ChoicesEmptyText, BlockDeltaText, MessageStopText, DoneText,
     GarbageText}

RECURSIVE Bodies(_)
Bodies(n) ==
    IF n = 0 THEN {<<>>}
    ELSE LET shorter == Bodies(n - 1)
         IN shorter \cup {Append(b, Frame(t)) : b \in shorter, t \in FrameTexts}

\* bodies whose last line has no blank line after it
OpenBodies ==
    {Append(b, OpenFrame(t)) : b \in Bodies(1), t \in {ChoicesHiText, BlockDeltaText, DoneText}}

RECURSIVE Concat(_)
Concat(seqs) == IF seqs = <<>> THEN <<>> ELSE Head(seqs) \o Concat(Tail(seqs))

\* JSON.parse(data): the parsed value, or kind "SyntaxError" when it throws
NotJson ==
    [kind |-> "SyntaxError", choices |-> "absent", content |-> <<>>,
     contentIsString |-> FALSE, type |-> "", deltaType |-> "", text |-> <<>>,
     textIsString |-> FALSE]

JsonParse(data) ==
    IF data = ChoicesHiText
    THEN [NotJson EXCEPT !.kind = "object", !.choices = "array", !.content = HiText,
                         !.contentIsString = TRUE]
    ELSE IF data = ChoicesEmptyText
    THEN [NotJson EXCEPT !.kind = "object", !.choices = "array", !.contentIsString = TRUE]
    ELSE IF data = BlockDeltaText
    THEN [NotJson EXCEPT !.kind = "object", !.type = "content_block_delta",
                         !.deltaType = "text_delta", !.text = HiText,
                         !.textIsString = TRUE]
    ELSE IF data = MessageStopText
    THEN [NotJson EXCEPT !.kind = "object", !.type = "message_stop"]
    ELSE NotJson

\* getDeltaContent(x) of openai.ts and mistral.ts
getDeltaContent(x) ==
    IF x.kind = "object" /\ x.choices = "array"
    THEN IF x.contentIsString THEN x.content ELSE <<>>
    ELSE <<>>

\* isTextDeltaEvent(e) of anthropic.ts
isTextDeltaEvent(e) ==
    /\ e.kind = "object"
    /\ e.type = "content_block_delta"
    /\ e.deltaType = "text_delta"
    /\ e.textIsString

\* parseStatus(err) of anthropic.ts
parseStatus(e) ==
    IF e.status # NoNum THEN e.status
    ELSE IF e.statusCode # NoNum THEN e.statusCode
    ELSE IF e.code # NoNum THEN e.code
    ELSE 500

HasSentinel(d) == d \in {"openai", "mistral"}

\* new OpenAIError / MistralError / AnthropicError (message, status)
VendorError(d, st) ==
    [cls |-> IF d = "openai" THEN "OpenAIError"
             ELSE IF d = "mistral" THEN "MistralError" ELSE "AnthropicError",
     status |-> st, statusCode |-> NoNum, code |-> NoNum]

\* what a rejected fetch or a rejected reader.read() throws
TransportError == [cls |-> "Error", status |-> NoNum, statusCode |-> NoNum, code |-> NoNum]

\* fetch rejects: there is no response
NoResponse == 0

\* The bodies of a response that is not ok, as `await res.json()` gives them.
ErrorBodies ==
    {NoJson,                                                       \* not JSON
     [json |-> "object", error |-> "object", message |-> "string",
      text |-> "bad key"],                           \* {"error":{"message":"bad key"}}
     [json |-> "object", error |-> "object", message |-> "string",
      text |-> ""],                                  \* {"error":{"message":""}}
     [json |-> "object", error |-> "object", message |-> "number",
      text |-> ""],                                  \* {"error":{"message":42}}
     [json |-> "object", error |-> "object", message |-> "absent",
      text |-> ""],                                  \* {"error":{}}
     [json |-> "object", error |-> "null", message |-> "absent",
      text |-> ""],                                  \* {"error":null}
     [json |-> "object", error |-> "string", message |-> "absent",
      text |-> ""],                                  \* {"error":"bad key"}
     [json |-> "object", error |-> "absent", message |-> "absent",
      text |-> ""],                                  \* {}
     [json |-> "null", error |-> "absent", message |-> "absent",
      text |-> ""],                                  \* null
     [json |-> "string", error |-> "absent", message |-> "absent",
      text |-> ""]}                                  \* "bad key"

\* isOpenAIErrorBody(x), isMistralErrorBody(x) and the inline test of
\* anthropic.ts: typeof null is "object"
isErrorBody(x) == x.json = "object" /\ x.error \in {"object", "null"}

\* typeof raw.error?.message === "string"
HasStringMessage(x) == x.error = "object" /\ x.message = "string"

VendorName(d) ==
    IF d = "openai" THEN "OpenAI" ELSE IF d = "mistral" THEN "Mistral" ELSE "Anthropic"

\* `<vendor> error: <status>`
GenericMessage(d, st) == VendorName(d) \o " error: " \o ToString(st)

\* `<vendor> error <status>: <message>`
DetailedMessage(d, st, text) ==
    VendorName(d) \o " error " \o ToString(st) \o ": " \o text

\* the message of the error a rejected fetch or read carries
TransportMessage == "fetch failed"

\* an error body whose parse failure leaves streamChat
NonOkErrorParseEscapes(d, st, raw) ==
    IF raw.json = "throws"
    THEN [error |-> TransportError, message |-> "Unexpected token"]
    ELSE [error |-> VendorError(d, st),
          message |-> IF isErrorBody(raw) /\ HasStringMessage(raw)
                      THEN DetailedMessage(d, st, raw.text)
                      ELSE GenericMessage(d, st)]

\* `if (!res.ok) { ... throw new XError(message, res.status) }`: the error
\* thrown and its message
NonOkError(d, st, raw) ==
    [error |-> VendorError(d, st),
     message |-> IF raw.json = "throws"
                 THEN GenericMessage(d, st)
                 ELSE IF isErrorBody(raw) /\ HasStringMessage(raw)
                 THEN DetailedMessage(d, st, raw.text)
                 ELSE GenericMessage(d, st)]

\* res.ok
IsOk(st) == st >= 200 /\ st <= 299

\* the chunks `{ delta }` and `{ delta: "", done: true }`
DeltaChunk(text) == [delta |-> text, done |-> FALSE]
DoneChunk == [delta |-> <<>>, done |-> TRUE]

\* a test that every string passes
AlwaysTruthy(str) == TRUE

\* `if (delta)`: a string is truthy when it is not empty
IsTruthy(str) == str # <<>>

\* a loop that an unparseable payload ends
OnPayloadStopsOnGarbage(d, data) ==
    IF HasSentinel(d) /\ data = DoneText
    THEN [yield |-> <<DoneChunk>>, break |-> TRUE]
    ELSE LET json == JsonParse(data)
         IN IF json.kind = "SyntaxError"
            THEN [yield |-> <<>>, break |-> TRUE]
            ELSE IF HasSentinel(d)
            THEN [yield |-> IF IsTruthy(getDeltaContent(json))
                            THEN <<DeltaChunk(getDeltaContent(json))>> ELSE <<>>,
                  break |-> FALSE]
            ELSE [yield |-> IF isTextDeltaEvent(json)
                            THEN <<DeltaChunk(json.text)>> ELSE <<>>,
                  break |-> FALSE]

\* a stream end after which nothing is yielded
OnStreamEndSilent(d) == <<>>

\* a loop that yields the terminal chunk and goes on reading
OnPayloadReadsOn(d, data) ==
    IF HasSentinel(d) /\ data = DoneText
    THEN [yield |-> <<DoneChunk>>, break |-> FALSE]
    ELSE LET json == JsonParse(data)
         IN IF json.kind = "SyntaxError"
            THEN [yield |-> <<>>, break |-> FALSE]
            ELSE IF HasSentinel(d)
            THEN [yield |-> IF IsTruthy(getDeltaContent(json))
                            THEN <<DeltaChunk(getDeltaContent(json))>> ELSE <<>>,
                  break |-> FALSE]
            ELSE [yield |-> IF isTextDeltaEvent(json)
                            THEN <<DeltaChunk(json.text)>> ELSE <<>>,
                  break |-> FALSE]

\* What the loop body does with one payload: the chunks it yields and
\* whether it breaks out of the loop.
OnPayload(d, data) ==
    IF HasSentinel(d)
    THEN IF data = DoneText
         THEN [yield |-> <<DoneChunk>>, break |-> TRUE]
         ELSE LET json == JsonParse(data)
              IN IF json.kind = "SyntaxError"
                 THEN [yield |-> <<>>, break |-> FALSE]
                 ELSE LET delta == getDeltaContent(json)
                      IN IF IsTruthy(delta)
                         THEN [yield |-> <<DeltaChunk(delta)>>, break |-> FALSE]
                         ELSE [yield |-> <<>>, break |-> FALSE]
    ELSE LET ev == JsonParse(data)
         IN IF ev.kind # "SyntaxError" /\ isTextDeltaEvent(ev)
            THEN [yield |-> <<DeltaChunk(ev.text)>>, break |-> FALSE]
            ELSE [yield |-> <<>>, break |-> FALSE]

\* What the adapter does when the decoder's sequence has ended normally.
OnStreamEnd(d) == IF HasSentinel(d) THEN <<>> ELSE <<DoneChunk>>

\* The error that leaves streamChat when the decoder's sequence raises e.
OnStreamError(d, e) ==
    IF HasSentinel(d) THEN e ELSE VendorError(d, parseStatus(e))

AdInit ==
    /\ dialect \in {"openai", "mistral", "anthropic"}
    /\ apc \in {"fetch", "chatFetch"}
    /\ http \in {NoResponse, 200, 401, 429, 500}
    /\ IF http = 200 /\ apc = "fetch"
       THEN /\ hasBody \in BOOLEAN
            /\ IF hasBody
               THEN /\ frames \in Bodies(MaxFrames) \cup OpenBodies
                    /\ bodyEnd \in {"eof", "error"}
               ELSE frames = <<>> /\ bodyEnd = "eof"
       ELSE hasBody = FALSE /\ frames = <<>> /\ bodyEnd = "eof"
    /\ body = frames
    /\ IF http # NoResponse /\ (~IsOk(http) \/ apc = "chatFetch")
       THEN errBody \in ErrorBodies
       ELSE errBody = NoJson
    /\ amessage = ""
    /\ fetches = 0
    /\ autf8 = Utf8Init
    /\ abuffer = <<>>
    /\ queue = <<>>
    /\ emitted = <<>>
    /\ aoutcome = "pending"
    /\ athrown = NoError
    /\ DecIdle /\ ClsIdle /\ RetIdle /\ FbIdle /\ CanIdle /\ CompIdle /\ PayIdle /\ ConIdle /\ ModIdle /\ StIdle

\* `await doFetch(...)` rejects: the error leaves streamChat
AdFetchRejects ==
    /\ apc = "fetch"
    /\ http = NoResponse
    /\ fetches' = fetches + 1
    /\ apc' = "done"
    /\ aoutcome' = "threw"
    /\ athrown' = TransportError
    /\ amessage' = TransportMessage
    /\ UNCHANGED <<body, errBody, dialect, http, hasBody, frames, bodyEnd, autf8, abuffer, queue,
                   emitted>>
    /\ UNCHANGED <<decVars, clsVars, retVars, fbVars, canVars, compVars, payVars, conVars, modVars, stVars>>

\* the response arrives: `if (!res.ok) throw`, else the stream loop begins
AdFetchResponds ==
    /\ apc = "fetch"
    /\ http # NoResponse
    /\ fetches' = fetches + 1
    /\ IF IsOk(http)
       THEN /\ apc' = IF hasBody THEN "stream" ELSE "flushed"
            /\ UNCHANGED <<aoutcome, athrown, amessage>>
       ELSE /\ apc' = "done"
            /\ aoutcome' = "threw"
            /\ athrown' = NonOkError(dialect, http, errBody).error
            /\ amessage' = NonOkError(dialect, http, errBody).message
    /\ UNCHANGED <<body, errBody, dialect, http, hasBody, frames, bodyEnd, autf8, abuffer, queue,
                   emitted>>
    /\ UNCHANGED <<decVars, clsVars, retVars, fbVars, canVars, compVars, payVars, conVars, modVars, stVars>>

\* the loop asks for a payload and the decoder reads: the next frame, or
\* all the frames left, come in one buffer
AdRead ==
    /\ apc = "stream"
    /\ queue = <<>>
    /\ frames # <<>>
    /\ \E n \in {1, Len(frames)} :
          LET step == ReadStep(autf8, abuffer, Concat(SubSeq(frames, 1, n)))
          IN /\ frames' = SubSeq(frames, n + 1, Len(frames))
             /\ autf8' = step.utf8
             /\ abuffer' = step.buffer
             /\ queue' = step.yielded
    /\ UNCHANGED <<body, errBody, dialect, http, hasBody, bodyEnd, apc, emitted, aoutcome, athrown>>
    /\ UNCHANGED <<amessage, fetches>>
    /\ UNCHANGED <<decVars, clsVars, retVars, fbVars, canVars, compVars, payVars, conVars, modVars, stVars>>

\* the reader reports the end of the body: the decoder flushes its buffer
AdReadEnd ==
    /\ apc = "stream"
    /\ queue = <<>>
    /\ frames = <<>>
    /\ bodyEnd = "eof"
    /\ queue' = FlushTrailing(abuffer)
    /\ apc' = "flushed"
    /\ UNCHANGED <<body, errBody, dialect, http, hasBody, frames, bodyEnd, autf8, abuffer, emitted,
                   aoutcome, athrown>>
    /\ UNCHANGED <<amessage, fetches>>
    /\ UNCHANGED <<decVars, clsVars, retVars, fbVars, canVars, compVars, payVars, conVars, modVars, stVars>>

\* an adapter that asks for the response again when the stream fails
AdReadFailsRefetches ==
    /\ apc = "stream"
    /\ queue = <<>>
    /\ frames = <<>>
    /\ bodyEnd = "error"
    /\ fetches' = fetches + 1
    /\ apc' = "done"
    /\ aoutcome' = "threw"
    /\ athrown' = OnStreamError(dialect, TransportError)
    /\ amessage' = TransportMessage
    /\ UNCHANGED <<body, errBody, dialect, http, hasBody, frames, bodyEnd, autf8, abuffer, queue,
                   emitted>>
    /\ UNCHANGED <<decVars, clsVars, retVars, fbVars, canVars, compVars, payVars, conVars, modVars, stVars>>

\* reader.read() rejects: the decoder's sequence raises
AdReadFails ==
    /\ apc = "stream"
    /\ queue = <<>>
    /\ frames = <<>>
    /\ bodyEnd = "error"
    /\ apc' = "done"
    /\ aoutcome' = "threw"
    /\ athrown' = OnStreamError(dialect, TransportError)
    /\ amessage' = TransportMessage
    /\ UNCHANGED fetches
    /\ UNCHANGED <<body, errBody, dialect, http, hasBody, frames, bodyEnd, autf8, abuffer, queue,
                   emitted>>
    /\ UNCHANGED <<decVars, clsVars, retVars, fbVars, canVars, compVars, payVars, conVars, modVars, stVars>>

\* one pass of `for await (const data of sseToIterable(res))`
AdPayload ==
    /\ apc \in {"stream", "flushed"}
    /\ queue # <<>>
    /\ LET act == OnPayload(dialect, Head(queue))
       IN /\ emitted' = emitted \o act.yield
          /\ IF act.break
             THEN /\ apc' = "done"
                  /\ aoutcome' = "returned"
                  /\ queue' = <<>>
             ELSE /\ queue' = Tail(queue)
                  /\ UNCHANGED <<apc, aoutcome>>
    /\ UNCHANGED <<body, errBody, dialect, http, hasBody, frames, bodyEnd, autf8, abuffer, athrown>>
    /\ UNCHANGED <<amessage, fetches>>
    /\ UNCHANGED <<decVars, clsVars, retVars, fbVars, canVars, compVars, payVars, conVars, modVars, stVars>>

\* the decoder's sequence has ended: the loop is left and streamChat returns
AdStreamEnds ==
    /\ apc = "flushed"
    /\ queue = <<>>
    /\ emitted' = emitted \o OnStreamEnd(dialect)
    /\ apc' = "done"
    /\ aoutcome' = "returned"
    /\ UNCHANGED <<body, errBody, dialect, http, hasBody, frames, bodyEnd, autf8, abuffer, queue,
                   athrown>>
    /\ UNCHANGED <<amessage, fetches>>
    /\ UNCHANGED <<decVars, clsVars, retVars, fbVars, canVars, compVars, payVars, conVars, modVars, stVars>>

\* chat(req, signal): `await doFetch(...)`, then `if (!res.ok) throw`
AdChatFetch ==
    /\ apc = "chatFetch"
    /\ fetches' = fetches + 1
    /\ IF http = NoResponse
       THEN /\ apc' = "chatDone"
            /\ aoutcome' = "threw"
            /\ athrown' = TransportError
            /\ amessage' = TransportMessage
       ELSE IF IsOk(http)
       THEN /\ apc' = "chatJson"
            /\ UNCHANGED <<aoutcome, athrown, amessage>>
       ELSE /\ apc' = "chatDone"
            /\ aoutcome' = "threw"
            /\ athrown' = NonOkError(dialect, http, errBody).error
            /\ amessage' = NonOkError(dialect, http, errBody).message
    /\ UNCHANGED <<body, errBody, dialect, http, hasBody, frames, bodyEnd, autf8, abuffer, queue,
                   emitted>>
    /\ UNCHANGED <<decVars, clsVars, retVars, fbVars, canVars, compVars, payVars, conVars, modVars, stVars>>

\* chat: `const data = await res.json()` and the response built from it;
\* res.json() rejects on a body that is not JSON, and `data.choices` throws
\* when data is null
AdChatJson ==
    /\ apc = "chatJson"
    /\ apc' = "chatDone"
    /\ IF errBody.json = "throws"
       THEN /\ aoutcome' = "threw"
            /\ athrown' = [TransportError EXCEPT !.cls = "SyntaxError"]
            /\ amessage' = "Unexpected token"
       ELSE IF errBody.json = "null"
       THEN /\ aoutcome' = "threw"
            /\ athrown' = [TransportError EXCEPT !.cls = "TypeError"]
            /\ amessage' = "Cannot read properties of null"
       ELSE /\ aoutcome' = "returned"
            /\ UNCHANGED <<athrown, amessage>>
    /\ UNCHANGED <<body, errBody, dialect, http, hasBody, frames, bodyEnd, autf8, abuffer, queue,
                   emitted, fetches>>
    /\ UNCHANGED <<decVars, clsVars, retVars, fbVars, canVars, compVars, payVars, conVars, modVars, stVars>>

AdNext ==
    \/ AdFetchRejects \/ AdFetchResponds \/ AdRead \/ AdReadEnd \/ AdReadFails
    \/ AdPayload \/ AdStreamEnds \/ AdChatFetch \/ AdChatJson

SpecAdapter == AdInit /\ [][AdNext]_vars

-----------------------------------------------------------------------------
(* The network call of streamChat(req, signal) and chat(req, signal): the   *)
(* method's AbortController and timer, the caller's signal, and the fetch.  *)
(* openAI, mistral and anthropic call fetch (or opts.fetch) themselves;     *)
(* grok and localLLM call it through their doFetch helper, which has an     *)
(* AbortController and a timer of its own.  Time is counted in ticks; a     *)
(* timer armed with `timeout` fires when that many ticks have gone by.      *)

\* the latest time of the model
MaxTime == 3

\* the values of the `timeout` option, in ticks
Timeouts == {1, 2}

Adapters == {"openai", "mistral", "anthropic", "grok", "local"}

\* grok.ts and local.ts call fetch through `async function doFetch`
UsesFetchHelper(a) == a \in {"grok", "local"}

\* `signal: signal || controller.signal`: the signal the method passes on
PassedSignal(sup) == IF sup THEN "caller" ELSE "controller"

\* The signal fetch is given.  The helper spreads the options it was passed
\* and then sets `signal: controller.signal`, its own controller's.
FetchSignal(a, sup) == IF UsesFetchHelper(a) THEN "helper" ELSE PassedSignal(sup)

\* whether signal g is aborted, given the three signals' states
IsAborted(g, cs, ks, hs) ==
    IF g = "caller" THEN cs ELSE IF g = "controller" THEN ks ELSE hs

CanInit ==
    /\ adapter \in Adapters
    /\ method \in {"streamChat", "chat"}
    /\ supplied \in BOOLEAN
    /\ timeout \in Timeouts
    /\ now = 0
    /\ callerSig = FALSE
    /\ ctlSig = FALSE
    /\ helperSig = FALSE
    /\ ctlTimer = "none"
    /\ helperTimer = "none"
    /\ call = "idle"
    /\ abortedBy = "none"
    /\ DecIdle /\ ClsIdle /\ RetIdle /\ FbIdle /\ AdIdle /\ CompIdle /\ PayIdle /\ ConIdle /\ ModIdle /\ StIdle

\* The method is called: `setTimeout(() => controller.abort(), timeout)`,
\* the request body is built and fetch is called, all without an await.  A
\* fetch given a signal that is aborted already is rejected at once.
CanCall ==
    /\ call = "idle"
    /\ ctlTimer = "none"
    /\ LET g == FetchSignal(adapter, supplied)
       IN IF IsAborted(g, callerSig, ctlSig, helperSig)
          THEN /\ call' = "rejected"
               /\ abortedBy' = g
               /\ ctlTimer' = "cleared"
               /\ helperTimer' = IF UsesFetchHelper(adapter) THEN "cleared" ELSE "none"
          ELSE /\ call' = "pending"
               /\ abortedBy' = "none"
               /\ ctlTimer' = "armed"
               /\ helperTimer' = IF UsesFetchHelper(adapter) THEN "armed" ELSE "none"
    /\ UNCHANGED <<adapter, method, supplied, timeout, now, callerSig, ctlSig, helperSig>>
    /\ UNCHANGED <<decVars, clsVars, retVars, fbVars, adVars, compVars, payVars, conVars, modVars, stVars>>

\* the caller aborts the signal it passed; a pending fetch that was given
\* that signal, or a pending read of its response's body, is rejected and
\* the `finally` / `catch` clears the timers
CanCallerAborts ==
    /\ supplied
    /\ ~callerSig
    /\ call \in {"idle", "pending", "reading"}
    /\ callerSig' = TRUE
    /\ IF call \in {"pending", "reading"} /\ FetchSignal(adapter, supplied) = "caller"
       THEN /\ call' = "rejected"
            /\ abortedBy' = "caller"
            /\ ctlTimer' = "cleared"
            /\ helperTimer' = IF helperTimer = "armed" THEN "cleared" ELSE helperTimer
       ELSE UNCHANGED <<call, abortedBy, ctlTimer, helperTimer>>
    /\ UNCHANGED <<adapter, method, supplied, timeout, now, ctlSig, helperSig>>
    /\ UNCHANGED <<decVars, clsVars, retVars, fbVars, adVars, compVars, payVars, conVars, modVars, stVars>>

\* the method's timer fires: `controller.abort()`
CanTimerFires ==
    /\ ctlTimer = "armed"
    /\ now >= timeout
    /\ ctlSig' = TRUE
    /\ IF call \in {"pending", "reading"} /\ FetchSignal(adapter, supplied) = "controller"
       THEN /\ call' = "rejected"
            /\ abortedBy' = "controller"
       ELSE UNCHANGED <<call, abortedBy>>
    /\ ctlTimer' = "fired"
    /\ UNCHANGED <<adapter, method, supplied, timeout, now, callerSig, helperSig,
                   helperTimer>>
    /\ UNCHANGED <<decVars, clsVars, retVars, fbVars, adVars, compVars, payVars, conVars, modVars, stVars>>

\* the helper's timer fires: `controller.abort()` in doFetch; its timer was
\* armed after the method's, so it fires after it
CanHelperTimerFires ==
    /\ helperTimer = "armed"
    /\ ctlTimer # "armed"
    /\ now >= timeout
    /\ helperSig' = TRUE
    /\ IF call \in {"pending", "reading"} /\ FetchSignal(adapter, supplied) = "helper"
       THEN /\ call' = "rejected"
            /\ abortedBy' = "helper"
       ELSE UNCHANGED <<call, abortedBy>>
    /\ helperTimer' = "fired"
    /\ UNCHANGED <<adapter, method, supplied, timeout, now, callerSig, ctlSig,
                   ctlTimer>>
    /\ UNCHANGED <<decVars, clsVars, retVars, fbVars, adVars, compVars, payVars, conVars, modVars, stVars>>

\* the response arrives, with a success status: fetch resolves and
\* `clearTimeout(timeoutId)` runs in the helper and, as the statement after
\* `await doFetch(...)`, in the method.  streamChat then waits for the first
\* chunk of the body (`for await (... of sseToIterable(res))`).
CanResponds ==
    /\ call = "pending"
    /\ call' = IF method = "streamChat" THEN "reading" ELSE "resolved"
    /\ ctlTimer' = IF ctlTimer = "armed" THEN "cleared" ELSE ctlTimer
    /\ helperTimer' = IF helperTimer = "armed" THEN "cleared" ELSE helperTimer
    /\ UNCHANGED <<adapter, method, supplied, timeout, now, callerSig, ctlSig,
                   helperSig, abortedBy>>
    /\ UNCHANGED <<decVars, clsVars, retVars, fbVars, adVars, compVars, payVars, conVars, modVars, stVars>>

\* a tick goes by; a timer that is due fires before the next tick
CanTick ==
    /\ now < MaxTime
    /\ call \in {"pending", "reading"}
    /\ ~(ctlTimer = "armed" /\ now >= timeout)
    /\ ~(helperTimer = "armed" /\ now >= timeout)
    /\ now' = now + 1
    /\ timeout' = timeout
    /\ UNCHANGED <<adapter, method, supplied, callerSig, ctlSig, helperSig,
                   ctlTimer, helperTimer, call, abortedBy>>
    /\ UNCHANGED <<decVars, clsVars, retVars, fbVars, adVars, compVars, payVars, conVars, modVars, stVars>>

\* the body ends: the read in wait resolves with done, the loop ends and
\* the `finally` runs `clearTimeout(timeoutId)` once more
CanStreamEnds ==
    /\ call = "reading"
    /\ call' = "resolved"
    /\ ctlTimer' = IF ctlTimer = "armed" THEN "cleared" ELSE ctlTimer
    /\ helperTimer' = IF helperTimer = "armed" THEN "cleared" ELSE helperTimer
    /\ UNCHANGED <<adapter, method, supplied, timeout, now, callerSig, ctlSig,
                   helperSig, abortedBy>>
    /\ UNCHANGED <<decVars, clsVars, retVars, fbVars, adVars, compVars, payVars, conVars, modVars, stVars>>

CanNext ==
    \/ CanCall \/ CanCallerAborts \/ CanTimerFires \/ CanHelperTimerFires
    \/ CanResponds \/ CanStreamEnds \/ CanTick

SpecCancel == CanInit /\ [][CanNext]_vars

-----------------------------------------------------------------------------
(* What an application builds: adapters, withRetry and withFallback around *)
(* them, and the capabilities it then uses on the objects it has.          *)

\* most objects an application builds
MaxObjects == 3

\* the members of the Provider interface
Capabilities == {"streamChat", "chat", "getModels", "validateModel", "getMaxTokens"}

\* the object literal openAI(opts), mistral(opts), anthropic(opts),
\* grok(opts) and localLLM(opts) return
Construct(a) == [kind |-> "adapter", name |-> a, wraps |-> <<>>, caps |-> Capabilities]

\* the object literal withRetry(provider, opts) returns
withRetry(provider) ==
    [kind |-> "wrapper", name |-> "withRetry", wraps |-> <<provider.name>>,
     caps |-> {"streamChat"}]

\* the object literal withFallback(providers, opts) returns
withFallback(providers) ==
    [kind |-> "wrapper", name |-> "withFallback",
     wraps |-> [k \in 1..Len(providers) |-> providers[k].name],
     caps |-> {"streamChat"}]

\* `obj.cap(...)`: a member the object does not have is undefined, and
\* calling it throws a TypeError
Use(obj, cap) == IF cap \in obj.caps THEN "called" ELSE "TypeError"

CompInit ==
    /\ built = <<>>
    /\ used = NoUse
    /\ DecIdle /\ ClsIdle /\ RetIdle /\ FbIdle /\ AdIdle /\ CanIdle /\ PayIdle /\ ConIdle /\ ModIdle /\ StIdle

CompAdapter ==
    /\ Len(built) < MaxObjects
    /\ \E a \in Adapters : built' = Append(built, Construct(a))
    /\ UNCHANGED used
    /\ UNCHANGED <<decVars, clsVars, retVars, fbVars, adVars, canVars, payVars, conVars, modVars, stVars>>

CompRetry ==
    /\ Len(built) < MaxObjects
    /\ \E i \in 1..Len(built) : built' = Append(built, withRetry(built[i]))
    /\ UNCHANGED used
    /\ UNCHANGED <<decVars, clsVars, retVars, fbVars, adVars, canVars, payVars, conVars, modVars, stVars>>

CompFallback ==
    /\ Len(built) < MaxObjects
    /\ \E i \in 1..Len(built) :
          \E j \in i..Len(built) :
             built' = Append(built, withFallback(IF i = j THEN <<built[i]>>
                                                 ELSE <<built[i], built[j]>>))
    /\ UNCHANGED used
    /\ UNCHANGED <<decVars, clsVars, retVars, fbVars, adVars, canVars, payVars, conVars, modVars, stVars>>

\* the application uses a capability of an object it has built
CompUse ==
    /\ \E i \in 1..Len(built) :
          \E cap \in Capabilities :
             used' = [on |-> i, cap |-> cap, result |-> Use(built[i], cap)]
    /\ UNCHANGED built
    /\ UNCHANGED <<decVars, clsVars, retVars, fbVars, adVars, canVars, payVars, conVars, modVars, stVars>>

CompNext == CompAdapter \/ CompRetry \/ CompFallback \/ CompUse

SpecCompose == CompInit /\ [][CompNext]_vars

-----------------------------------------------------------------------------
(* The vendor payload an adapter's streamChat and chat derive from the     *)
(* caller's ChatRequest.  Arrays are objects: a payload that holds         *)
(* req.messages holds the caller's array itself.                           *)

\* most messages in a request
MaxMessages == 2

\* the messages of the model
MessageValues ==
    { [role |-> "user", content |-> "hi"],
      [role |-> "system", content |-> "S"],
      [role |-> "assistant", content |-> "ok"] }

RECURSIVE MessageLists(_)
MessageLists(n) ==
    IF n = 0 THEN {<<>>}
    ELSE LET shorter == MessageLists(n - 1)
         IN shorter \cup {Append(l, m) : l \in shorter, m \in MessageValues}

\* the values of req.systemPrompt
SystemPrompts == {Undefined, "", "P"}

\* `if (x)` on a string or undefined
IsSet(x) == x # Undefined /\ x # ""

\* `req.messages.some((m) => m.role === "system")`
HasSystemMessage(msgs) == \E k \in 1..Len(msgs) : msgs[k].role = "system"

\* `system.join("\n")`
RECURSIVE Join(_)
Join(parts) ==
    IF Len(parts) = 1 THEN parts[1] ELSE parts[1] \o "\n" \o Join(Tail(parts))

\* the `system` array toAnthropicPayload collects
AnthropicSystem(prompt, msgs) ==
    (IF IsSet(prompt) THEN <<prompt>> ELSE <<>>)
        \o [k \in 1..Len(SelectSeq(msgs, LAMBDA m : m.role = "system")) |->
               SelectSeq(msgs, LAMBDA m : m.role = "system")[k].content]

\* toAnthropicPayload(req): the system text and the new messages array
toAnthropicPayload(prompt, msgs) ==
    [system |-> IF AnthropicSystem(prompt, msgs) # <<>>
                THEN Join(AnthropicSystem(prompt, msgs)) ELSE Undefined,
     messages |-> SelectSeq(msgs, LAMBDA m : m.role \in {"user", "assistant"})]

PayInit ==
    /\ vendor \in Adapters
    /\ \E prompt \in SystemPrompts :
          \E msgs \in MessageLists(MaxMessages) :
             /\ req = [systemPrompt |-> prompt, messages |-> 1]
             /\ heap = <<msgs>>
             /\ given = [system |-> prompt, messages |-> msgs]
    /\ requestBody = NoRequest
    /\ sent = NoPayload
    /\ ppc = "build"
    /\ DecIdle /\ ClsIdle /\ RetIdle /\ FbIdle /\ AdIdle /\ CanIdle /\ CompIdle /\ ConIdle /\ ModIdle /\ StIdle

\* `const requestBody = { model: req.model, messages: req.messages, ... }`;
\* anthropic: `toAnthropicPayload(req)`
PayBuild ==
    /\ ppc = "build"
    /\ IF vendor = "anthropic"
       THEN LET payload == toAnthropicPayload(req.systemPrompt, heap[req.messages])
            IN /\ heap' = Append(heap, payload.messages)
               /\ requestBody' = [system |-> payload.system, messages |-> Len(heap) + 1]
               /\ ppc' = "send"
       ELSE /\ requestBody' = [system |-> Undefined, messages |-> req.messages]
            /\ ppc' = "inject"
            /\ UNCHANGED heap
    /\ UNCHANGED <<vendor, req, given, sent>>
    /\ UNCHANGED <<decVars, clsVars, retVars, fbVars, adVars, canVars, compVars, conVars, modVars, stVars>>

\* a system message put at the head of the array the payload holds
PayInjectInPlace ==
    /\ ppc = "inject"
    /\ IF IsSet(req.systemPrompt) /\ ~HasSystemMessage(heap[req.messages])
       THEN heap' = [heap EXCEPT ![requestBody.messages] =
                        <<[role |-> "system", content |-> req.systemPrompt]>> \o @]
       ELSE UNCHANGED heap
    /\ ppc' = "send"
    /\ UNCHANGED <<vendor, req, given, requestBody, sent>>
    /\ UNCHANGED <<decVars, clsVars, retVars, fbVars, adVars, canVars, compVars, conVars, modVars, stVars>>

\* `if (req.systemPrompt && !req.messages.some(...)) requestBody.messages =
\* [{ role: "system", content: req.systemPrompt }, ...req.messages]`
PayInject ==
    /\ ppc = "inject"
    /\ IF IsSet(req.systemPrompt) /\ ~HasSystemMessage(heap[req.messages])
       THEN /\ heap' = Append(heap, <<[role |-> "system", content |-> req.systemPrompt]>>
                                        \o heap[req.messages])
            /\ requestBody' = [requestBody EXCEPT !.messages = Len(heap) + 1]
       ELSE UNCHANGED <<heap, requestBody>>
    /\ ppc' = "send"
    /\ UNCHANGED <<vendor, req, given, sent>>
    /\ UNCHANGED <<decVars, clsVars, retVars, fbVars, adVars, canVars, compVars, conVars, modVars, stVars>>

\* `body: JSON.stringify(requestBody)`
PaySend ==
    /\ ppc = "send"
    /\ sent' = [system |-> requestBody.system, messages |-> heap[requestBody.messages]]
    /\ ppc' = "done"
    /\ UNCHANGED <<vendor, req, heap, given, requestBody>>
    /\ UNCHANGED <<decVars, clsVars, retVars, fbVars, adVars, canVars, compVars, conVars, modVars, stVars>>

PayNext == PayBuild \/ PayInject \/ PaySend

SpecPayload == PayInit /\ [][PayNext]_vars

-----------------------------------------------------------------------------
(* Two streamChat calls interleaved on the same withRetry wrapper, the     *)
(* same withFallback wrapper or the same adapter.  A step of a call is one *)
(* attempt of a wrapper, or one read of the adapter's decoder.             *)

Calls == {1, 2}

\* the options the wrappers of this part were built with
ConRetries == 1
ConProviders == 2

\* what a call's attempts will do, in order: end normally or throw
AttemptPlans ==
    {<<a, b>> : a \in {NoError} \cup ThrownErrors, b \in {NoError} \cup ThrownErrors}

\* the buffers a call's reader will deliver: one frame cut in two
BodyPlans ==
    {<<SubSeq(Frame(t), 1, 4), SubSeq(Frame(t), 5, Len(Frame(t)))>> :
        t \in {ChoicesHiText, DoneText, GarbageText}}

\* the value a call's local variable starts with: `let attempt = 0`,
\* `let i = 0`, `new TextDecoder()` and `let buffer = ""`
FreshLocal(kind) ==
    IF kind = "adapter" THEN [utf8 |-> Utf8Init, buffer |-> <<>>] ELSE 0

\* variables that all calls of the object share
SharedSlot(c) == 1

\* the variables are declared inside streamChat and sseToIterable: every
\* call has its own
Mine(c) == c

ConInit ==
    /\ ckind \in {"retry", "fallback", "adapter"}
    /\ plan \in [Calls -> IF ckind = "adapter" THEN BodyPlans ELSE AttemptPlans]
    /\ script = plan
    /\ local = [c \in Calls |-> FreshLocal(ckind)]
    /\ result = [c \in Calls |-> [seen |-> <<>>, outcome |-> "pending"]]
    /\ cpc = [c \in Calls |-> "run"]
    /\ DecIdle /\ ClsIdle /\ RetIdle /\ FbIdle /\ AdIdle /\ CanIdle /\ CompIdle /\ PayIdle /\ ModIdle /\ StIdle

\* withRetry: one pass of the while loop of call c
ConRetryAttempt(c) ==
    /\ ckind = "retry"
    /\ cpc[c] = "run"
    /\ LET e == Head(script[c])
           n == local[Mine(c)] + 1
           tried == Append(result[c].seen, Len(result[c].seen) + 1)
       IN IF e = NoError
          THEN /\ result' = [result EXCEPT ![c] = [seen |-> tried, outcome |-> "returned"]]
               /\ cpc' = [cpc EXCEPT ![c] = "done"]
               /\ UNCHANGED local
          ELSE /\ local' = [local EXCEPT ![Mine(c)] = n]
               /\ IF GiveUp(n, ConRetries, "shared", e, FALSE)
                  THEN /\ result' = [result EXCEPT ![c] = [seen |-> tried,
                                                           outcome |-> "threw"]]
                       /\ cpc' = [cpc EXCEPT ![c] = "done"]
                  ELSE /\ result' = [result EXCEPT ![c].seen = tried]
                       /\ UNCHANGED cpc
    /\ script' = [script EXCEPT ![c] = Tail(@)]
    /\ UNCHANGED <<ckind, plan>>
    /\ UNCHANGED <<decVars, clsVars, retVars, fbVars, adVars, canVars, compVars, payVars, modVars, stVars>>

\* withFallback: one pass of the for loop of call c, and the loop's end
ConFallbackAttempt(c) ==
    /\ ckind = "fallback"
    /\ cpc[c] = "run"
    /\ LET i == local[Mine(c)]
       IN IF i >= ConProviders
          THEN /\ result' = [result EXCEPT ![c].outcome = "threw"]
               /\ cpc' = [cpc EXCEPT ![c] = "done"]
               /\ UNCHANGED <<local, script>>
          ELSE /\ script' = [script EXCEPT ![c] = Tail(@)]
               /\ IF Head(script[c]) = NoError
                  THEN /\ result' = [result EXCEPT ![c] = [seen |-> Append(@.seen, i),
                                                           outcome |-> "returned"]]
                       /\ cpc' = [cpc EXCEPT ![c] = "done"]
                       /\ UNCHANGED local
                  ELSE /\ result' = [result EXCEPT ![c].seen = Append(@, i)]
                       /\ local' = [local EXCEPT ![Mine(c)] = NextIndex(i)]
                       /\ UNCHANGED cpc
    /\ UNCHANGED <<ckind, plan>>
    /\ UNCHANGED <<decVars, clsVars, retVars, fbVars, adVars, canVars, compVars, payVars, modVars, stVars>>

\* an adapter: one read of the decoder of call c, or the end of its body
ConRead(c) ==
    /\ ckind = "adapter"
    /\ cpc[c] = "run"
    /\ IF script[c] = <<>>
       THEN /\ result' = [result EXCEPT ![c] =
                            [seen |-> @.seen \o FlushTrailing(local[Mine(c)].buffer),
                             outcome |-> "returned"]]
            /\ cpc' = [cpc EXCEPT ![c] = "done"]
            /\ UNCHANGED <<local, script>>
       ELSE LET step == ReadStep(local[Mine(c)].utf8, local[Mine(c)].buffer,
                                 Head(script[c]))
            IN /\ local' = [local EXCEPT ![Mine(c)] =
                               [utf8 |-> step.utf8, buffer |-> step.buffer]]
               /\ result' = [result EXCEPT ![c].seen = @ \o step.yielded]
               /\ script' = [script EXCEPT ![c] = Tail(@)]
               /\ UNCHANGED cpc
    /\ UNCHANGED <<ckind, plan>>
    /\ UNCHANGED <<decVars, clsVars, retVars, fbVars, adVars, canVars, compVars, payVars, modVars, stVars>>

ConNext == \E c \in Calls : ConRetryAttempt(c) \/ ConFallbackAttempt(c) \/ ConRead(c)

SpecConcurrent == ConInit /\ [][ConNext]_vars

-----------------------------------------------------------------------------
(* getModels, validateModel and getMaxTokens of an adapter.  The two       *)
(* lookups are synchronous functions of the identifier; getModels is one   *)
(* GET of `${baseURL}/models` inside a try/catch.                           *)

\* most validateModel / getMaxTokens calls the caller makes
MaxLookups == 2

\* the identifiers the caller asks about
ModelIds ==
    {"", "x", "gpt", "gpt-4", "gpt-4o-mini", "gpt-3.5-turbo-16k",
     "mistral-large-latest", "open-mixtral-8x7b", "open-mixtral-8x22b",
     "grok-beta", "grok-2-vision", "claude-3-opus-20240229", "claude-2.1",
     "llama3", "codellama", "phi"}

\* modelId.includes(p)
Includes(s, p) ==
    \E i \in 1..(Len(s) - Len(p) + 1) : SubSeq(s, i, i + Len(p) - 1) = p

\* `const validModels = [...]` of validateModel
ValidModels(a) ==
    IF a = "openai"
    THEN {"gpt-4o", "gpt-4o-mini", "gpt-4-turbo", "gpt-4", "gpt-3.5-turbo"}
    ELSE IF a = "mistral"
    THEN {"mistral-large-latest", "mistral-medium-latest", "mistral-small-latest",
          "mistral-7b-instruct", "mistral-7b-instruct-v0.2",
          "mistral-7b-instruct-v0.3", "open-mistral-7b", "open-mixtral-8x7b",
          "open-mixtral-8x22b"}
    ELSE IF a = "anthropic"
    THEN {"claude-3-5-sonnet-20241022", "claude-3-5-haiku-20241022",
          "claude-3-opus-20240229", "claude-3-sonnet-20240229",
          "claude-3-haiku-20240307", "claude-2.1", "claude-2.0",
          "claude-instant-1.2", "claude-instant-1.1"}
    ELSE IF a = "grok"
    THEN {"grok-beta", "grok-beta-vision", "grok-beta-2", "grok-beta-2-vision",
          "grok-2", "grok-2-vision", "grok-2-mini", "grok-2-mini-vision"}
    ELSE {}

\* validModels.some((model) => modelId.startsWith(model)); localLLM returns
\* modelId.length > 0
validateModel(a, id) ==
    IF a = "local" THEN Len(id) > 0
    ELSE \E model \in ValidModels(a) : StartsWith(id, model)

\* the chain of `if (...) return n;` of getMaxTokens, ending in the default
getMaxTokens(a, id) ==
    IF a = "openai"
    THEN IF StartsWith(id, "gpt-4o") THEN 128000
         ELSE IF StartsWith(id, "gpt-4") THEN 8192
         ELSE IF StartsWith(id, "gpt-3.5-turbo") THEN 16385
         ELSE 4096
    ELSE IF a = "mistral"
    THEN IF Includes(id, "large") THEN 32768
         ELSE IF Includes(id, "medium") THEN 16384
         ELSE IF Includes(id, "small") THEN 8192
         ELSE IF Includes(id, "mixtral-8x22b") THEN 65536
         ELSE IF Includes(id, "mixtral-8x7b") THEN 32768
         ELSE IF Includes(id, "7b") THEN 8192
         ELSE 4096
    ELSE IF a = "anthropic"
    THEN IF StartsWith(id, "claude-3-5-sonnet") THEN 200000
         ELSE IF StartsWith(id, "claude-3-5-haiku") THEN 200000
         ELSE IF StartsWith(id, "claude-3-opus") THEN 200000
         ELSE IF StartsWith(id, "claude-3-sonnet") THEN 200000
         ELSE IF StartsWith(id, "claude-3-haiku") THEN 200000
         ELSE IF StartsWith(id, "claude-2") THEN 100000
         ELSE IF StartsWith(id, "claude-instant") THEN 100000
         ELSE 100000
    ELSE IF a = "grok"
    THEN IF Includes(id, "vision") THEN 128000
         ELSE IF Includes(id, "grok-2") THEN 128000
         ELSE IF Includes(id, "beta-2") THEN 128000
         ELSE 8192
    ELSE IF Includes(id, "llama3") \/ Includes(id, "llama-3") THEN 8192
         ELSE IF Includes(id, "llama2") \/ Includes(id, "llama-2") THEN 4096
         ELSE IF Includes(id, "codellama") THEN 16384
         ELSE IF Includes(id, "mistral") THEN 8192
         ELSE IF Includes(id, "gpt") THEN 4096
         ELSE IF Includes(id, "qwen") THEN 32768
         ELSE IF Includes(id, "yi") THEN 16384
         ELSE IF Includes(id, "gemma") THEN 8192
         ELSE IF Includes(id, "phi") THEN 2048
         ELSE 32768

\* the class of the errors an adapter throws
ErrorClass(a) ==
    IF a = "openai" THEN "OpenAIError"
    ELSE IF a = "mistral" THEN "MistralError"
    ELSE IF a = "anthropic" THEN "AnthropicError"
    ELSE IF a = "grok" THEN "GrokError"
    ELSE "LocalLLMError"

\* new XError(message, status)
AdapterError(a, st) ==
    [cls |-> ErrorClass(a), status |-> st, statusCode |-> NoNum, code |-> NoNum]

\* what a failing res.json() or `data.data` of null throws
ParseError == [cls |-> "TypeError", status |-> NoNum, statusCode |-> NoNum, code |-> NoNum]

\* the statuses /models answers with
ModelsStatuses == {200, 401, 429, 503}

\* what `await res.json()` gives: a rejection, null, an object without
\* `data`, an object whose `data` lists two models
ModelsBodies == {"throws", "null", "no data", "list"}

\* data.data?.map((model) => model.id) || []
ModelsOf(b) == IF b = "list" THEN <<"m1", "m2">> ELSE <<>>

\* the catch block of getModels: `if (error instanceof XError) throw error;`
\* then `throw new XError(..., 500)`.  mistral.ts has the first line
\* commented out.
GetModelsCatch(a, e) ==
    IF a # "mistral" /\ e.cls = ErrorClass(a) THEN e ELSE AdapterError(a, 500)

ModInit ==
    /\ madapter \in Adapters
    /\ modelId \in ModelIds
    /\ mhttp \in {NoResponse} \cup ModelsStatuses
    /\ mbody \in IF mhttp = NoResponse THEN {"none"} ELSE ModelsBodies
    /\ lookups = <<>> /\ mfetches = 0 /\ mthrown = NoError /\ mlist = <<>>
    /\ mpc = "ready"
    /\ DecIdle /\ ClsIdle /\ RetIdle /\ FbIdle /\ AdIdle /\ CanIdle /\ CompIdle /\ PayIdle /\ ConIdle /\ StIdle

\* a validateModel call that asks the vendor
ModValidateFetches ==
    /\ mpc # "idle" /\ Len(lookups) < MaxLookups
    /\ lookups' = Append(lookups, [fn |-> "validateModel", id |-> modelId,
                                   value |-> mfetches = 0])
    /\ mfetches' = mfetches + 1
    /\ UNCHANGED <<madapter, modelId, mhttp, mbody, mthrown, mlist, mpc>>
    /\ UNCHANGED <<decVars, clsVars, retVars, fbVars, adVars, canVars, compVars, payVars, conVars, stVars>>

\* provider.validateModel(modelId)
ModValidate ==
    /\ mpc # "idle" /\ Len(lookups) < MaxLookups
    /\ lookups' = Append(lookups, [fn |-> "validateModel", id |-> modelId,
                                   value |-> validateModel(madapter, modelId)])
    /\ UNCHANGED <<madapter, modelId, mfetches, mhttp, mbody, mthrown, mlist, mpc>>
    /\ UNCHANGED <<decVars, clsVars, retVars, fbVars, adVars, canVars, compVars, payVars, conVars, stVars>>

\* provider.getMaxTokens(modelId)
ModMaxTokens ==
    /\ mpc # "idle" /\ Len(lookups) < MaxLookups
    /\ lookups' = Append(lookups, [fn |-> "getMaxTokens", id |-> modelId,
                                   value |-> getMaxTokens(madapter, modelId)])
    /\ UNCHANGED <<madapter, modelId, mfetches, mhttp, mbody, mthrown, mlist, mpc>>
    /\ UNCHANGED <<decVars, clsVars, retVars, fbVars, adVars, canVars, compVars, payVars, conVars, stVars>>

\* provider.getModels() up to the end of `await doFetch(...)`
ModGetModels ==
    /\ mpc = "ready"
    /\ mfetches' = mfetches + 1
    /\ IF mhttp = NoResponse
       THEN /\ mthrown' = GetModelsCatch(madapter, TransportError)
            /\ mpc' = "done"
       ELSE /\ mthrown' = mthrown
            /\ mpc' = "responded"
    /\ UNCHANGED <<madapter, modelId, lookups, mhttp, mbody, mlist>>
    /\ UNCHANGED <<decVars, clsVars, retVars, fbVars, adVars, canVars, compVars, payVars, conVars, stVars>>

\* getModels from `if (!res.ok)` to its return or throw
ModGetModelsResponds ==
    /\ mpc = "responded"
    /\ IF ~IsOk(mhttp)
       THEN /\ mthrown' = GetModelsCatch(madapter, AdapterError(madapter, mhttp))
            /\ mlist' = mlist
       ELSE IF mbody \in {"throws", "null"}
       THEN /\ mthrown' = GetModelsCatch(madapter, ParseError)
            /\ mlist' = mlist
       ELSE /\ mthrown' = mthrown
            /\ mlist' = ModelsOf(mbody)
    /\ mpc' = "done"
    /\ UNCHANGED <<madapter, modelId, lookups, mfetches, mhttp, mbody>>
    /\ UNCHANGED <<decVars, clsVars, retVars, fbVars, adVars, canVars, compVars, payVars, conVars, stVars>>

ModNext == ModValidate \/ ModMaxTokens \/ ModGetModels \/ ModGetModelsResponds

SpecModels == ModInit /\ [][ModNext]_vars

-----------------------------------------------------------------------------
(* One streamChat call on withRetry(A), on withFallback([...]) or on the    *)
(* composition withFallback([withRetry(A), withRetry(B)]), seen with its    *)
(* consumer: the wrappers are async generators, so a chunk passes through   *)
(* every `yield chunk` on its way up, an error passes through every catch   *)
(* block on its way up, and a consumer that leaves its loop returns every   *)
(* generator that is suspended at a yield.  Providers are numbered from 0.  *)

\* the values of `retries` given to withRetry
RetriesOptions == {0, 1}

\* what a list element is: the provider itself, or withRetry around it
Elements ==
    {[retry |-> FALSE, retries |-> 0]}
       \cup {[retry |-> TRUE, retries |-> r] : r \in RetriesOptions}

\* the errors a provider throws: a transient one and one that is not
StackErrors ==
    { [cls |-> "Error", status |-> 500, statusCode |-> NoNum, code |-> NoNum],
      [cls |-> "OpenAIError", status |-> 401, statusCode |-> NoNum, code |-> NoNum] }

\* whether the attempt in progress has yielded a chunk with done: true
DoneInCurrent == scur > 0 /\ sdel[Len(sdel)].done

\* a catch block of withFallback that rethrows as withRetry's does
FallbackRethrowsAsRetry(e, sig) == ~isTransientError("shared", e) \/ sig

\* the catch block of withFallback holds no throw: no error ends the loop
FallbackRethrows(e, sig) == FALSE

StInit ==
    /\ souter \in {"fallback", "none"}
    /\ swraps \in IF souter = "none"
                  THEN {<<[retry |-> TRUE, retries |-> r]>> : r \in RetriesOptions}
                  ELSE {<<a>> : a \in Elements}
                         \cup {<<a, b>> : a \in Elements, b \in Elements}
    /\ si = 0 /\ sattempt = 0 /\ slast = NoError
    /\ sinv = <<>> /\ sdel = <<>> /\ scur = 0 /\ shist = <<>> /\ swaits = 0
    /\ snotes = <<>> /\ ssig = FALSE /\ spc = "call" /\ sout = "pending"
    /\ sthrown = NoError
    /\ DecIdle /\ ClsIdle /\ RetIdle /\ FbIdle /\ AdIdle /\ CanIdle /\ CompIdle /\ PayIdle /\ ConIdle /\ ModIdle

\* `provider.streamChat(req, signal)` at the head of the innermost for await
StInvoke ==
    /\ spc = "call"
    /\ si < Len(swraps)
    /\ sinv' = Append(sinv, [p |-> si, sig |-> ssig])
    /\ scur' = 0
    /\ spc' = "iter"
    /\ UNCHANGED <<souter, swraps, si, sattempt, slast, sdel, shist, swaits, snotes, ssig,
                   sout, sthrown>>
    /\ UNCHANGED <<decVars, clsVars, retVars, fbVars, adVars, canVars, compVars, payVars, conVars, modVars>>

\* the provider yields a chunk, and every wrapper above it runs `yield chunk`
StYield ==
    /\ spc = "iter"
    /\ ~DoneInCurrent
    /\ \E d \in BOOLEAN :
          /\ d \/ scur < MaxChunks
          /\ sdel' = Deliver(sdel, [p |-> si, done |-> d])
    /\ scur' = scur + 1
    /\ UNCHANGED <<souter, swraps, si, sattempt, slast, sinv, shist, swaits, snotes, ssig,
                   spc, sout, sthrown>>
    /\ UNCHANGED <<decVars, clsVars, retVars, fbVars, adVars, canVars, compVars, payVars, conVars, modVars>>

\* a withFallback that goes on to the next provider when a stream has ended
StReturnGoesOn ==
    /\ spc = "iter"
    /\ shist' = Append(shist, [p |-> si, end |-> "ok", error |-> NoError,
                              sig |-> ssig, chunks |-> scur, done |-> DoneInCurrent])
    /\ IF souter = "fallback"
       THEN /\ si' = NextIndex(si)
            /\ sattempt' = 0
            /\ spc' = "call"
            /\ sout' = sout
       ELSE /\ spc' = "done"
            /\ sout' = "returned"
            /\ UNCHANGED <<si, sattempt>>
    /\ UNCHANGED <<souter, swraps, slast, sinv, sdel, scur, swaits, snotes, ssig, sthrown>>
    /\ UNCHANGED <<decVars, clsVars, retVars, fbVars, adVars, canVars, compVars, payVars, conVars, modVars>>

\* the provider's stream ends: `return` in every wrapper
StReturn ==
    /\ spc = "iter"
    /\ shist' = Append(shist, [p |-> si, end |-> "ok", error |-> NoError,
                              sig |-> ssig, chunks |-> scur, done |-> DoneInCurrent])
    /\ spc' = "done"
    /\ sout' = "returned"
    /\ UNCHANGED <<souter, swraps, si, sattempt, slast, sinv, sdel, scur, swaits, snotes,
                   ssig, sthrown>>
    /\ UNCHANGED <<decVars, clsVars, retVars, fbVars, adVars, canVars, compVars, payVars, conVars, modVars>>

\* The provider throws e.  withRetry's catch block, when withRetry wraps
\* the provider: give up and rethrow, or sleep.  An error that leaves
\* withRetry, or that an unwrapped provider throws, reaches withFallback's
\* catch block (`lastError = e; opts.onFallback?.(e, i)` and the loop's
\* i++), or the consumer when there is no withFallback.
StCatch ==
    /\ spc = "iter"
    /\ \E e \in StackErrors :
          LET w == swraps[si + 1]
              n == sattempt + 1
              leaves == ~w.retry \/ GiveUp(n, w.retries, "shared", e, ssig)
          IN /\ shist' = Append(shist, [p |-> si, end |-> "threw", error |-> e,
                                       sig |-> ssig, chunks |-> scur,
                                       done |-> DoneInCurrent])
             /\ IF ~leaves
                THEN /\ sattempt' = n
                     /\ swaits' = swaits + 1
                     /\ spc' = "sleep"
                     /\ UNCHANGED <<si, slast, snotes, sout, sthrown>>
                ELSE IF souter = "none" \/ FallbackRethrows(e, ssig)
                THEN /\ sattempt' = IF w.retry THEN n ELSE sattempt
                     /\ spc' = "done"
                     /\ sout' = "threw"
                     /\ sthrown' = e
                     /\ UNCHANGED <<si, slast, snotes, swaits>>
                ELSE /\ sattempt' = 0
                     /\ slast' = RecordError(slast, e)
                     /\ snotes' = Notify(snotes, TRUE, e, si)
                     /\ si' = NextIndex(si)
                     /\ spc' = "call"
                     /\ UNCHANGED <<swaits, sout, sthrown>>
    /\ UNCHANGED <<souter, swraps, sinv, sdel, scur, ssig>>
    /\ UNCHANGED <<decVars, clsVars, retVars, fbVars, adVars, canVars, compVars, payVars, conVars, modVars>>

\* withFallback's loop is over: `throw lastError`
StExhausted ==
    /\ spc = "call"
    /\ si >= Len(swraps)
    /\ spc' = "done"
    /\ sout' = "threw"
    /\ sthrown' = slast
    /\ UNCHANGED <<souter, swraps, si, sattempt, slast, sinv, sdel, scur, shist, swaits,
                   snotes, ssig>>
    /\ UNCHANGED <<decVars, clsVars, retVars, fbVars, adVars, canVars, compVars, payVars, conVars, modVars>>

\* `await sleep(wait)` is over: withRetry's loop goes round
StWake ==
    /\ spc = "sleep"
    /\ spc' = "call"
    /\ UNCHANGED <<souter, swraps, si, sattempt, slast, sinv, sdel, scur, shist, swaits,
                   snotes, ssig, sout, sthrown>>
    /\ UNCHANGED <<decVars, clsVars, retVars, fbVars, adVars, canVars, compVars, payVars, conVars, modVars>>

\* the caller aborts its signal
StAbort ==
    /\ spc \in {"call", "iter", "sleep"}
    /\ ~ssig
    /\ ssig' = TRUE
    /\ UNCHANGED <<souter, swraps, si, sattempt, slast, sinv, sdel, scur, shist, swaits,
                   snotes, spc, sout, sthrown>>
    /\ UNCHANGED <<decVars, clsVars, retVars, fbVars, adVars, canVars, compVars, payVars, conVars, modVars>>

\* a consumer whose leaving is thrown into the wrappers as an error
StBreakThrows ==
    /\ spc = "iter"
    /\ scur > 0
    /\ LET w == swraps[si + 1]
       IN IF w.retry /\ sattempt + 1 <= w.retries
          THEN /\ sattempt' = sattempt + 1
               /\ swaits' = swaits + 1
               /\ spc' = "sleep"
               /\ UNCHANGED <<si, snotes, sout>>
          ELSE IF souter = "fallback"
          THEN /\ sattempt' = 0
               /\ snotes' = Notify(snotes, TRUE, NoError, si)
               /\ si' = NextIndex(si)
               /\ spc' = "call"
               /\ UNCHANGED <<swaits, sout>>
          ELSE /\ spc' = "done"
               /\ sout' = "abandoned"
               /\ UNCHANGED <<si, sattempt, swaits, snotes>>
    /\ shist' = Append(shist, [p |-> si, end |-> "left", error |-> NoError,
                              sig |-> ssig, chunks |-> scur, done |-> DoneInCurrent])
    /\ UNCHANGED <<souter, swraps, slast, sinv, sdel, scur, ssig, sthrown>>
    /\ UNCHANGED <<decVars, clsVars, retVars, fbVars, adVars, canVars, compVars, payVars, conVars, modVars>>

\* The consumer leaves its `for await` after a chunk: the wrappers are
\* suspended at `yield chunk`, each is returned (a return completion runs
\* no catch block), and each leaving its own for await returns the
\* generator below it.
StBreak ==
    /\ spc = "iter"
    /\ scur > 0
    /\ shist' = Append(shist, [p |-> si, end |-> "left", error |-> NoError,
                              sig |-> ssig, chunks |-> scur, done |-> DoneInCurrent])
    /\ spc' = "done"
    /\ sout' = "abandoned"
    /\ UNCHANGED <<souter, swraps, si, sattempt, slast, sinv, sdel, scur, swaits,
                   snotes, ssig, sthrown>>
    /\ UNCHANGED <<decVars, clsVars, retVars, fbVars, adVars, canVars, compVars, payVars, conVars, modVars>>

StNext ==
    \/ StInvoke \/ StYield \/ StReturn \/ StCatch \/ StExhausted \/ StWake
    \/ StAbort \/ StBreak

SpecStack == StInit /\ [][StNext]_vars

-----------------------------------------------------------------------------
\* C1: fragmentation invariance.  However the body is cut into buffers, the
\* payloads the decoder has yielded when the body ends are those it yields
\* for the same bytes delivered as one buffer.
C1_FragmentationInvariance ==
    dpc = "done" => out = DecodeWhole(input)

\* a body cut inside its two-byte character and inside its delimiter has
\* been decoded to its payload
C1_Witness ==
    /\ dpc = "done"
    /\ input = DataPrefix \o <<SP, 195, 169, CR, LF, CR, LF>>
    /\ cuts = {"char", "newline"}
    /\ out = <<<<233>>>>

-----------------------------------------------------------------------------
\* how many chunks of q have done = true
RECURSIVE DoneCount(_)
DoneCount(q) ==
    IF q = <<>> THEN 0
    ELSE (IF Head(q).done THEN 1 ELSE 0) + DoneCount(Tail(q))

\* C2: a streamChat call that is over has either yielded exactly one
\* done=true chunk and returned, or has raised without a done=true chunk.
C2_TerminationInvariant ==
    apc = "done"
    => \/ (aoutcome = "returned" /\ DoneCount(emitted) = 1)
       \/ (aoutcome = "threw" /\ DoneCount(emitted) = 0)

-----------------------------------------------------------------------------
(* The status an error carries: its first numeric property among status,   *)
(* statusCode and code, as parseStatus of the adapters reads it.  An error *)
(* is transient when that status is 429 or at least 500, or when it        *)
(* carries none.                                                           *)

CarriedStatus(e) ==
    IF e.status # NoNum THEN e.status
    ELSE IF e.statusCode # NoNum THEN e.statusCode
    ELSE e.code

TransientByStatus(e) ==
    LET st == CarriedStatus(e) IN st = NoNum \/ st = 429 \/ st >= 500

\* the attempts h[from..to] all threw an error that is transient by its status
AllTransientFailures(h, from, to) ==
    \A j \in from..to : h[j].end = "threw" /\ TransientByStatus(h[j].error)

\* the chunks <<a, 1>>, ..., <<a, n>>
ChunksOf(a, n) == [j \in 1..n |-> <<a, j>>]

\* sequence t is the tail of sequence q
EndsWith(q, t) ==
    Len(q) >= Len(t) /\ SubSeq(q, Len(q) - Len(t) + 1, Len(q)) = t

\* C3: when the provider has failed k times in a row with a transient error
\* and has then succeeded, withRetry has invoked it exactly k+1 times, k is
\* at most retries, and the stream has completed with the chunks of the
\* successful attempt.
C3_RetryThenSuccess ==
    (/\ rpc = "done"
     /\ hist # <<>>
     /\ hist[Len(hist)].end = "ok"
     /\ AllTransientFailures(hist, 1, Len(hist) - 1))
    => /\ calls = Len(hist)
       /\ Len(hist) - 1 <= retries
       /\ outcome = "returned"
       /\ EndsWith(delivered, ChunksOf(calls, cur))

\* retries = 2, two failures with status 500, then success: three invocations
C3_Witness ==
    /\ rpc = "done"
    /\ retries = 2
    /\ Len(hist) = 3
    /\ hist[1].error.status = 500 /\ hist[2].error.status = 500
    /\ hist[3].end = "ok"
    /\ calls = 3
    /\ cur = MaxChunks
    /\ outcome = "returned"

\* C4: when the provider's first failure carries a non-transient status,
\* withRetry has invoked the provider once, has slept no backoff delay and
\* has thrown that same error, whatever retries is.
C4_NonTransientOnce ==
    (hist # <<>> /\ hist[1].end = "threw" /\ ~TransientByStatus(hist[1].error))
    => /\ calls = 1
       /\ waits = <<>>
       /\ rpc = "done"
       /\ outcome = "threw"
       /\ thrown = hist[1].error

\* C5: an error is classified transient exactly when its carried status is
\* 429 or at least 500 or it carries no status, whichever class raised it.
C5_Classification ==
    verdict # "unset" => (verdict = "transient" <=> TransientByStatus(err))

SignalAtFailure(h) == \E j \in 1..Len(h) : h[j].end = "threw" /\ h[j].sig

-----------------------------------------------------------------------------
\* the chunks of the attempts h[1..n] one after the other, attempt j's chunks
\* being <<j, 1>>, ..., <<j, h[j].chunks>>
RECURSIVE AttemptChunks(_, _)
AttemptChunks(h, n) ==
    IF n = 0 THEN <<>>
    ELSE AttemptChunks(h, n - 1) \o ChunksOf(n, h[n].chunks)

\* C11: at every moment the caller of withRetry has received exactly the
\* chunks every ended attempt yielded, in attempt order, each attempt from
\* its first chunk, followed by the chunks of the attempt in progress; once
\* the call is over that is the chunks of the failed attempts followed by
\* all chunks of the final attempt.
C11_RetryConcatenation ==
    delivered = AttemptChunks(hist, Len(hist))
                  \o (IF rpc = "iter" THEN ChunksOf(calls, cur) ELSE <<>>)

\* a first attempt yielded a chunk and failed, the retry yielded its chunks
\* and ended: the caller has the chunk of the failed attempt and then those
\* of the retry
C11_Witness ==
    /\ rpc = "done"
    /\ outcome = "returned"
    /\ Len(hist) = 2
    /\ hist[1].end = "threw" /\ hist[1].chunks = 1
    /\ hist[2].end = "ok" /\ hist[2].chunks = MaxChunks
    /\ delivered = <<<<1, 1>>>> \o ChunksOf(2, MaxChunks)

-----------------------------------------------------------------------------
\* the providers 0 .. n-1 in list order
ListOrder(n) == [j \in 1..n |-> j - 1]

\* C7: with two providers, once A's attempt has failed and the call is over,
\* A was invoked once, then B once; and when B's attempt succeeded the caller
\* has B's result: the stream ended normally after B's chunks.
C7_FallbackToSecond ==
    (fpc = "done" /\ nprov = 2 /\ fhist # <<>> /\ fhist[1].end = "threw")
    => /\ invoked = <<0, 1>>
       /\ Len(fhist) = 2
       /\ fhist[2].provider = 1
       /\ fhist[2].end = "ok"
          => /\ foutcome = "returned"
             /\ EndsWith(fdelivered, ChunksOf(1, fhist[2].chunks))

\* A failed, B succeeded after yielding its chunks
C7_Witness ==
    /\ fpc = "done"
    /\ nprov = 2
    /\ Len(fhist) = 2
    /\ fhist[1].end = "threw" /\ fhist[2].end = "ok"
    /\ fhist[2].chunks = MaxChunks
    /\ invoked = <<0, 1>>
    /\ foutcome = "returned"

\* C8: once a provider's stream has completed without raising, no provider
\* after it in the list is ever invoked in that call.
C8_NoInvokeAfterSuccess ==
    \A j \in 1..Len(fhist) :
        fhist[j].end = "ok"
        => \A k \in 1..Len(invoked) : invoked[k] <= fhist[j].provider

\* the first of several providers succeeded and the call is over
C8_Witness ==
    /\ fpc = "done"
    /\ nprov >= 2
    /\ fhist = <<[provider |-> 0, end |-> "ok", error |-> NoError, chunks |-> MaxChunks]>>
    /\ invoked = <<0>>

\* C9: when every provider of the list has failed, each was invoked exactly
\* once, in list order, and the error thrown to the caller is the error the
\* last provider raised.
C9_AllFail ==
    (fpc = "done" /\ foutcome = "threw")
    => /\ invoked = ListOrder(nprov)
       /\ Len(fhist) = nprov
       /\ \A j \in 1..nprov : fhist[j].provider = j - 1 /\ fhist[j].end = "threw"
       /\ fthrown = fhist[nprov].error

\* three providers failed with different errors; the last one's is thrown
C9_Witness ==
    /\ fpc = "done"
    /\ foutcome = "threw"
    /\ nprov = 3
    /\ fhist[1].error.status = 500
    /\ fhist[2].error.status = 404
    /\ fhist[3].error.status = 401
    /\ fthrown.status = 401

\* C10: at most one provider's attempt is in progress; a provider is invoked
\* only after every provider before it was invoked and its attempt ended in
\* failure; the chunks the caller has received are in provider order.
C10_Sequential ==
    /\ Cardinality(active) <= 1
    /\ \A k \in 1..Len(invoked) :
          /\ invoked[k] = k - 1
          /\ k > 1 => /\ Len(fhist) >= k - 1
                      /\ fhist[k - 1].provider = k - 2
                      /\ fhist[k - 1].end = "threw"
                      /\ (k - 2) \notin active
    /\ \A a \in 1..Len(fdelivered) : \A b \in a..Len(fdelivered) :
          fdelivered[a][1] <= fdelivered[b][1]

\* the second provider is streaming after the first one yielded and failed
C10_Witness ==
    /\ fpc = "iter"
    /\ idx = 1
    /\ active = {1}
    /\ fdelivered = <<<<0, 1>>, <<1, 1>>>>
    /\ fhist[1].end = "threw"

-----------------------------------------------------------------------------
\* the chunks of the attempts h[1..n] one after the other, the chunks of an
\* attempt of provider p being <<p, 1>>, ..., <<p, chunks>>
RECURSIVE ProviderChunks(_, _)
ProviderChunks(h, n) ==
    IF n = 0 THEN <<>>
    ELSE ProviderChunks(h, n - 1) \o ChunksOf(h[n].provider, h[n].chunks)

\* C12: under withFallback every invocation of a provider is given the
\* caller's request and starts at its first chunk; once provider i has
\* failed and the loop has gone on, provider i+1 is the next one invoked;
\* and the caller has received exactly the chunks of every ended attempt,
\* in order, followed by those of the attempt in progress: nothing merged,
\* dropped or deduplicated.
C12_FallbackMidStream ==
    /\ fsent = [j \in 1..Len(invoked) |-> freq]
    /\ \A j \in 1..Len(fhist) :
          (/\ fhist[j].end = "threw"
           /\ fhist[j].provider + 1 < nprov
           /\ (j < Len(fhist) \/ fpc # "call"))
          => /\ Len(invoked) > j
             /\ invoked[j + 1] = fhist[j].provider + 1
    /\ fdelivered = ProviderChunks(fhist, Len(fhist))
                      \o (IF fpc = "iter" THEN ChunksOf(idx, fcur) ELSE <<>>)

\* the first provider yielded a chunk and raised; the second one, given the
\* same request, yielded its chunks from the first and ended: the caller has
\* the first provider's chunk and then the second provider's chunks
C12_Witness ==
    /\ fpc = "done"
    /\ Len(fhist) = 2
    /\ fhist[1].end = "threw" /\ fhist[1].chunks = 1
    /\ fhist[2].end = "ok" /\ fhist[2].chunks = MaxChunks
    /\ fsent = <<freq, freq>>
    /\ fdelivered = <<<<0, 1>>>> \o ChunksOf(1, MaxChunks)

-----------------------------------------------------------------------------
\* C13: when the signal was aborted at the moment an attempt of withRetry
\* failed, that attempt is the last one: the call is over, it has thrown
\* that attempt's error, the provider was not invoked again and no backoff
\* delay was waited after the failure, whatever retries is and whatever the
\* error.
C13_AbortedAtFailure ==
    \A j \in 1..Len(hist) :
        (hist[j].end = "threw" /\ hist[j].sig)
        => /\ j = Len(hist)
           /\ rpc = "done"
           /\ outcome = "threw"
           /\ thrown = hist[j].error
           /\ calls = j
           /\ Len(waits) = j - 1

\* two retries allowed, the first attempt fails with status 500 while the
\* signal is aborted: one invocation, no delay, that error thrown
C13_Witness ==
    /\ retries = 2
    /\ Len(hist) = 1
    /\ hist[1].end = "threw" /\ hist[1].sig
    /\ hist[1].error.status = 500
    /\ rpc = "done"
    /\ calls = 1
    /\ waits = <<>>
    /\ thrown = hist[1].error

-----------------------------------------------------------------------------
\* C14: for every adapter and both methods, when the caller supplied a
\* signal and it has fired with no timer of the adapter having fired, the
\* network call that was made is not in flight and did not complete: it was
\* rejected, aborted by the caller's signal.
C14_CallerSignalAborts ==
    (/\ supplied /\ callerSig
     /\ ctlTimer # "fired" /\ helperTimer # "fired"
     /\ call # "idle")
    => (call = "rejected" /\ abortedBy = "caller")

\* C15: for every adapter and both methods, when the caller supplied a
\* signal that has not fired and the adapter's timeout has elapsed with the
\* network call in flight, the call was rejected, aborted by a timer of the
\* adapter.
C15_TimeoutAborts ==
    (/\ supplied /\ ~callerSig
     /\ ctlTimer = "fired" /\ helperTimer # "armed")
    => (call = "rejected" /\ abortedBy \in {"controller", "helper"})

-----------------------------------------------------------------------------
\* the text of a whole body
DecodedText(bytes) == Utf8Decode(Utf8Init, bytes).chars

\* the lines of the events parts[1..n], in order
RECURSIVE LinesOfParts(_, _)
LinesOfParts(parts, n) ==
    IF n = 0 THEN <<>>
    ELSE LinesOfParts(parts, n - 1) \o SplitLines(parts[n])

\* the lines of a text: those of its events, in order
LinesOf(text) == LinesOfParts(SplitEvents(text), Len(SplitEvents(text)))

\* the payload of a line that begins with the five characters `data:`, none
\* for any other line
PrefixedPayload(line) ==
    IF StartsWith(line, DataPrefix) THEN <<Trim(Slice(line, 5))>> ELSE <<>>

RECURSIVE PrefixedPayloads(_, _)
PrefixedPayloads(lines, n) ==
    IF n = 0 THEN <<>>
    ELSE PrefixedPayloads(lines, n - 1) \o PrefixedPayload(lines[n])

\* C16: when the body has ended, the payloads the decoder has yielded are
\* the trimmed remainders of the lines of the body that begin with `data:`,
\* in order, and no other line has yielded anything.
C16_OnlyDataLines ==
    dpc = "done"
    => out = PrefixedPayloads(LinesOf(DecodedText(input)),
                              Len(LinesOf(DecodedText(input))))

\* C17: when the body has ended, the last payloads yielded are those of the
\* data: lines of the buffer that was left, each line scanned as the lines
\* of a complete event are.
C17_TrailingFlush ==
    dpc = "done" => EndsWith(out, ScanLines(SplitLines(buffer)))

\* the body `data: ` and a two-byte character ended with no blank line: the
\* character is in the buffer and is yielded as the payload
C17_Witness ==
    /\ dpc = "done"
    /\ input = DataPrefix \o <<SP, 195, 169>>
    /\ buffer = DataPrefix \o <<SP, 233>>
    /\ out = <<<<233>>>>

-----------------------------------------------------------------------------
\* the payloads of the whole response body, in stream order
BodyPayloads == DecodeWhole(Concat(body))

\* the index of the first [DONE] among payloads p, 0 when there is none
FirstDone(p) ==
    IF \E i \in 1..Len(p) : p[i] = DoneText
    THEN Least({i \in 1..Len(p) : p[i] = DoneText})
    ELSE 0

\* the chunk of a payload whose choices[0].delta.content is a non-empty
\* string, nothing for any other payload
SharedDelta(payload) ==
    IF payload = ChoicesHiText THEN <<DeltaChunk(HiText)>> ELSE <<>>

\* the delta chunks of the payloads p[1..n], in order
RECURSIVE SharedDeltas(_, _)
SharedDeltas(p, n) ==
    IF n = 0 THEN <<>> ELSE SharedDeltas(p, n - 1) \o SharedDelta(p[n])

-----------------------------------------------------------------------------
\* a payload that is not the vendor's structured event or carries no text
\* delta: for openAI and mistral everything but [DONE] and a payload with a
\* non-empty content, for anthropic everything but a text delta event
IsBadPayload(d, payload) ==
    IF HasSentinel(d) THEN payload \notin {DoneText, ChoicesHiText}
    ELSE payload # BlockDeltaText

\* payloads p without the bad ones
WithoutBad(d, p) == SelectSeq(p, LAMBDA x : ~IsBadPayload(d, x))

\* What a stream of payloads with no bad one among them yields when it ends
\* normally: a {delta} chunk for each payload up to the end, or up to the
\* first [DONE], and the terminal chunk.
CleanRun(d, p) ==
    IF HasSentinel(d)
    THEN IF FirstDone(p) > 0
         THEN [j \in 1..(FirstDone(p) - 1) |-> DeltaChunk(HiText)] \o <<DoneChunk>>
         ELSE [j \in 1..Len(p) |-> DeltaChunk(HiText)]
    ELSE [j \in 1..Len(p) |-> DeltaChunk(HiText)] \o <<DoneChunk>>

-----------------------------------------------------------------------------
\* C20: the anthropic adapter has yielded no done=true chunk while the
\* stream is going; after a success response it returns exactly when the
\* decoder's sequence ended normally, and then the done=true chunk is the
\* last chunk and the only one; when the decoder's sequence raised, no
\* done=true chunk was yielded and an AnthropicError is thrown.
C20_AnthropicTerminal ==
    dialect = "anthropic"
    => /\ apc # "done" => DoneCount(emitted) = 0
       /\ (apc = "done" /\ IsOk(http))
          => /\ aoutcome = "returned" <=> (~hasBody \/ bodyEnd = "eof")
             /\ aoutcome = "returned"
                => /\ DoneCount(emitted) = 1
                   /\ emitted[Len(emitted)] = DoneChunk
             /\ aoutcome = "threw"
                => /\ DoneCount(emitted) = 0
                   /\ athrown.cls = "AnthropicError"

\* a text delta and message_stop, then the end of the body: the delta and
\* then the terminal chunk
C20_Witness ==
    /\ apc = "done"
    /\ dialect = "anthropic"
    /\ bodyEnd = "eof"
    /\ body = <<Frame(BlockDeltaText), Frame(MessageStopText)>>
    /\ emitted = <<DeltaChunk(HiText), DoneChunk>>

-----------------------------------------------------------------------------
(* A response that is not ok. *)

\* the body parses to a vendor envelope that has an error.message string
HasEnvelopeMessage(raw) ==
    raw.json = "object" /\ raw.error = "object" /\ raw.message = "string"

\* C21: on a non-success HTTP status streamChat yields no chunk and raises
\* the vendor's provider error with exactly that status; the message is
\* "<vendor> error <status>: <message>" when the body parses to an envelope
\* with error.message and "<vendor> error: <status>" otherwise, also when
\* the body cannot be parsed.
C21_NonSuccessStatus ==
    (apc = "done" /\ http # NoResponse /\ ~IsOk(http)) =>
        /\ emitted = <<>>
        /\ aoutcome = "threw"
        /\ athrown.cls = VendorError(dialect, http).cls
        /\ athrown.status = http
        /\ amessage = IF HasEnvelopeMessage(errBody)
                      THEN VendorName(dialect) \o " error " \o ToString(http) \o ": "
                               \o errBody.text
                      ELSE VendorName(dialect) \o " error: " \o ToString(http)

\* a 401 whose body is not JSON has been answered with the generic message
C21_Witness ==
    /\ apc = "done"
    /\ dialect = "openai"
    /\ http = 401
    /\ errBody = NoJson
    /\ aoutcome = "threw"
    /\ athrown.status = 401
    /\ amessage = "OpenAI error: 401"
    /\ emitted = <<>>

-----------------------------------------------------------------------------
(* The backoff of withRetry. *)

\* baseMs * factor^(n-1), by its recurrence
RECURSIVE Backoff(_, _, _)
Backoff(b, f, n) == IF n = 1 THEN b ELSE f * Backoff(b, f, n - 1)

RECURSIVE SumOf(_)
SumOf(q) == IF q = <<>> THEN 0 ELSE Head(q) + SumOf(Tail(q))

RECURSIVE TotalBackoff(_, _, _)
TotalBackoff(b, f, n) ==
    IF n = 0 THEN 0 ELSE TotalBackoff(b, f, n - 1) + Backoff(b, f, n)

\* C22: with jitter disabled the n-th wait, slept between the failure of
\* attempt n and the start of attempt n+1, is baseMs * factor^(n-1); there
\* is no wait before the first attempt and none after the failure that is
\* propagated, and a call that exhausts its retries has slept the sum of
\* baseMs * factor^(n-1) for n = 1..retries.
C22_ExponentialBackoff ==
    (rpc # "idle" /\ ~jitter) =>
        /\ \A n \in 1..Len(waits) : waits[n] = Backoff(baseMs, factor, n)
        /\ rpc \in {"call", "sleep"} => Len(waits) = calls
        /\ rpc \in {"iter", "done"} => Len(waits) = calls - 1
        /\ rpc = "sleep" => Len(hist) = Len(waits)
        /\ (rpc = "done" /\ outcome = "threw" /\ calls = retries + 1) =>
               SumOf(waits) = TotalBackoff(baseMs, factor, retries)

\* a call with retries = 2, baseMs = 7 and factor = 3 that has failed three
\* times and slept 7 and 21
C22_Witness ==
    /\ ~jitter
    /\ retries = 2 /\ baseMs = 7 /\ factor = 3
    /\ rpc = "done" /\ outcome = "threw"
    /\ calls = 3
    /\ waits = <<7, 21>>

\* C23: with jitter enabled every wait w before a retry satisfies
\* 0.8 * d <= w <= 1.2 * d, where d = baseMs * factor^(attempt-1) is the
\* delay without jitter.
C23_JitterRange ==
    (rpc # "idle" /\ jitter) =>
        \A n \in 1..Len(waits) :
            /\ 8 * Backoff(baseMs, factor, n) <= 10 * waits[n]
            /\ 10 * waits[n] <= 12 * Backoff(baseMs, factor, n)

-----------------------------------------------------------------------------
(* withFallback at wrap time and its observer. *)

RECURSIVE FailuresOf(_)
FailuresOf(h) ==
    IF h = <<>> THEN <<>>
    ELSE LET a == h[Len(h)]
             before == FailuresOf(SubSeq(h, 1, Len(h) - 1))
         IN IF a.end = "threw" THEN Append(before, <<a.error, a.provider>>) ELSE before

\* C25: onFallback, when configured, has been invoked exactly once for each
\* provider whose attempt raised, with that provider's error and index, in
\* increasing index order and before the next provider is invoked; it is not
\* invoked for a provider that succeeded or was not tried.
C25_ObserverCalls ==
    (fpc # "idle") =>
        /\ observer => notified = FailuresOf(fhist)
        /\ ~observer => notified = <<>>
        /\ \A k \in 1..Len(notified) :
              \A j \in 1..Len(notified) : k < j => notified[k][2] < notified[j][2]
        /\ observer =>
              \A k \in 1..Len(invoked) :
                  \A p \in 0..(invoked[k] - 1) :
                      \E j \in 1..Len(notified) : notified[j][2] = p

\* two providers have failed and been reported, the third has succeeded
C25_Witness ==
    /\ observer
    /\ fpc = "done" /\ foutcome = "returned"
    /\ nprov = 3
    /\ Len(notified) = 2
    /\ notified[1][2] = 0 /\ notified[2][2] = 1
    /\ fhist[3].end = "ok"

-----------------------------------------------------------------------------
\* C26: the objects withRetry and withFallback return satisfy the Provider
\* contract: each offers streamChat, chat, getModels, validateModel and
\* getMaxTokens, so every capability can be used on a composition as it can
\* on an adapter.
C26_WrappersAreProviders ==
    /\ \A i \in 1..Len(built) :
          built[i].kind = "wrapper" => built[i].caps = Capabilities
    /\ used.result # "TypeError"

-----------------------------------------------------------------------------
-----------------------------------------------------------------------------
(* The caller's request and the payload derived from it. *)

\* C28: streamChat and chat leave the caller's ChatRequest unchanged: at
\* every point of the call its systemPrompt and its messages sequence are
\* what the caller passed; the system message goes into the derived payload.
C28_RequestUnchanged ==
    (ppc # "idle") =>
        /\ req.systemPrompt = given.system
        /\ req.messages = 1
        /\ heap[req.messages] = given.messages
        /\ (ppc = "done" /\ sent.messages # given.messages) =>
               requestBody.messages # req.messages

\* openAI has sent a payload with the system message injected before the
\* caller's one message
C28_Witness ==
    /\ ppc = "done"
    /\ vendor = "openai"
    /\ given = [system |-> "P", messages |-> <<[role |-> "user", content |-> "hi"]>>]
    /\ sent.messages = <<[role |-> "system", content |-> "P"],
                         [role |-> "user", content |-> "hi"]>>
    /\ heap[req.messages] = <<[role |-> "user", content |-> "hi"]>>

\* the contents of the system-role messages of msgs, in order
SystemContents(msgs) ==
    [k \in 1..Len(SelectSeq(msgs, LAMBDA m : m.role = "system")) |->
        SelectSeq(msgs, LAMBDA m : m.role = "system")[k].content]

\* C29: the payload holds the system text built from systemPrompt exactly
\* when systemPrompt is set and the messages hold no system-role message;
\* when a system-role message is present the payload is what it would be
\* without systemPrompt.
C29_SystemPromptInjection ==
    (ppc = "done") =>
        LET explicit == SystemContents(given.messages) # <<>>
            injected == given.system \notin {Undefined, ""} /\ ~explicit
        IN IF vendor = "anthropic"
           THEN sent.system = IF injected THEN given.system
                              ELSE IF explicit THEN Join(SystemContents(given.messages))
                              ELSE Undefined
           ELSE sent.messages = IF injected
                                THEN <<[role |-> "system", content |-> given.system]>>
                                         \o given.messages
                                ELSE given.messages

-----------------------------------------------------------------------------
(* What a call does when it runs alone. *)

\* the attempt at which a withRetry call ends: the first that ends normally,
\* throws an error that is not transient, or is attempt retries + 1
LastAttempt(p) ==
    Least({k \in 1..Len(p) :
              p[k] = NoError \/ ~TransientByStatus(p[k]) \/ k = ConRetries + 1})

RetryAlone(p) ==
    [seen |-> [k \in 1..LastAttempt(p) |-> k],
     outcome |-> IF p[LastAttempt(p)] = NoError THEN "returned" ELSE "threw"]

\* the providers a withFallback call invokes: up to the first that ends
\* normally, all of them when none does
FallbackAlone(p) ==
    LET ok == {k \in 1..ConProviders : p[k] = NoError}
    IN IF ok = {}
       THEN [seen |-> [k \in 1..ConProviders |-> k - 1], outcome |-> "threw"]
       ELSE [seen |-> [k \in 1..Least(ok) |-> k - 1], outcome |-> "returned"]

\* the payloads of the body, however it was cut into buffers
AdapterAlone(p) == [seen |-> DecodeWhole(Concat(p)), outcome |-> "returned"]

\* C30: no mutable state is shared between concurrent calls: of two
\* streamChat calls interleaved on the same withRetry wrapper, withFallback
\* wrapper or adapter, each ends with the invocations, the payloads and the
\* outcome it has when it runs alone, and until then has done a part of them.
C30_CallsAreIndependent ==
    (ckind # "none") =>
        \A c \in Calls :
            LET alone == IF ckind = "retry" THEN RetryAlone(plan[c])
                         ELSE IF ckind = "fallback" THEN FallbackAlone(plan[c])
                         ELSE AdapterAlone(plan[c])
            IN /\ cpc[c] = "done" => result[c] = alone
               /\ cpc[c] = "run" =>
                     /\ Len(result[c].seen) <= Len(alone.seen)
                     /\ result[c].seen = SubSeq(alone.seen, 1, Len(result[c].seen))

\* two calls on one withRetry wrapper, each retried once after a transient
\* failure, have both ended normally after two invocations
C30_Witness ==
    /\ ckind = "retry"
    /\ \A c \in Calls :
          /\ cpc[c] = "done"
          /\ result[c] = [seen |-> <<1, 2>>, outcome |-> "returned"]
          /\ plan[c][1] # NoError

-----------------------------------------------------------------------------
(* C31: validateModel and getMaxTokens are pure and total.  For every       *)
(* identifier each call returns a value (a boolean, a number) and throws    *)
(* nothing; two calls with the same identifier return the same value; and   *)
(* a call issues no request and changes nothing of the adapter: the         *)
(* requests issued are those of getModels alone, and a step that is a       *)
(* lookup leaves the request count, getModels' position, its error and its  *)
(* list as they were.                                                      *)

GetModelsRequests == IF mpc \in {"responded", "done"} THEN 1 ELSE 0

C31_LookupsArePure ==
    /\ [](/\ \A i \in DOMAIN lookups :
                IF lookups[i].fn = "validateModel"
                THEN lookups[i].value \in BOOLEAN
                ELSE lookups[i].value \in Nat
          /\ \A i, j \in DOMAIN lookups :
                (lookups[i].fn = lookups[j].fn /\ lookups[i].id = lookups[j].id)
                   => lookups[i].value = lookups[j].value
          /\ mfetches = GetModelsRequests)
    /\ [][Len(lookups') > Len(lookups)
             => UNCHANGED <<madapter, mfetches, mthrown, mlist, mpc>>]_vars

\* the same lookup made twice, once before and once after getModels ran
C31_Witness ==
    /\ Len(lookups) = 2 /\ lookups[1].fn = lookups[2].fn
    /\ mpc = "done" /\ mfetches = 1
    /\ modelId = "open-mixtral-8x7b" /\ madapter = "mistral"

-----------------------------------------------------------------------------
(* C39: getModels issues a single request; when the response is not 2xx it  *)
(* throws the adapter's error carrying that response's status, and when     *)
(* fetch rejects it throws the adapter's error, not the transport's.        *)

C39_GetModelsErrors ==
    mpc = "done" =>
       /\ mfetches = 1
       /\ (mhttp # NoResponse /\ ~IsOk(mhttp))
             => (mthrown.cls = ErrorClass(madapter) /\ mthrown.status = mhttp)
       /\ mhttp = NoResponse => mthrown.cls = ErrorClass(madapter)

-----------------------------------------------------------------------------
(* C32: the adapter's timeout bounds the reads of the response stream.      *)
(* While streamChat waits for the next chunk of the body, once the timeout  *)
(* (counted from the call) has elapsed a timer of the adapter is armed and  *)
(* due, about to abort the read: the read does not stay pending with no     *)
(* timer left.                                                             *)
C32_TimeoutBoundsReads ==
    (method = "streamChat" /\ call = "reading" /\ now >= timeout)
       => (ctlTimer = "armed" \/ helperTimer = "armed")

-----------------------------------------------------------------------------
(* C33: the done=true chunk is the last chunk of an adapter's stream.  At   *)
(* every moment only the last chunk yielded may have done=true, and once    *)
(* it has been yielded streamChat has returned: no step yields a chunk or   *)
(* takes a buffer or a payload from the decoder after it, whatever the      *)
(* body still holds.                                                       *)

DoneYielded == emitted # <<>> /\ emitted[Len(emitted)].done

C33_DoneIsLast ==
    /\ [](/\ \A i \in DOMAIN emitted : emitted[i].done => i = Len(emitted)
          /\ DoneYielded => (apc = "done" /\ aoutcome = "returned"))
    /\ [][DoneYielded => UNCHANGED <<emitted, frames, queue, abuffer>>]_vars

\* [DONE] followed by a frame with text, still unread when streamChat ended
C33_Witness ==
    /\ dialect = "openai"
    /\ body = <<Frame(DoneText), Frame(ChoicesHiText)>>
    /\ frames = <<Frame(ChoicesHiText)>>
    /\ emitted = <<DoneChunk>>
    /\ apc = "done"

-----------------------------------------------------------------------------
(* C34: withRetry starts no attempt after the first at a moment when the    *)
(* caller's signal is aborted, whether the signal was aborted when the      *)
(* failure was caught or was aborted during the backoff sleep after it: a   *)
(* step that invokes the provider again is taken with the signal not        *)
(* aborted.                                                                *)
C34_NoAttemptWhileAborted ==
    [][(rpc = "call" /\ rpc' = "iter" /\ calls >= 1) => ~aborted]_vars

-----------------------------------------------------------------------------
(* C35: a consumer that leaves the stream of withRetry or withFallback      *)
(* early is not a failure.  Once the consumer has left after a chunk, the   *)
(* call is over, and from that step on no provider is invoked, no backoff   *)
(* sleep begins and onFallback is not called.                               *)

ConsumerLeft == \E k \in DOMAIN shist : shist[k].end = "left"

C35_EarlyBreakEndsCall ==
    /\ [](ConsumerLeft => (spc = "done" /\ sout = "abandoned"))
    /\ [][ConsumerLeft' => UNCHANGED <<sinv, swaits, snotes>>]_vars

\* the consumer left during the retry of the first of two wrapped providers
C35_Witness ==
    /\ ConsumerLeft
    /\ souter = "fallback" /\ Len(swraps) = 2 /\ swraps[1].retry /\ swraps[1].retries = 1
    /\ Len(sinv) = 2 /\ si = 0 /\ sattempt = 1
    /\ swaits = 1 /\ snotes = <<>>

-----------------------------------------------------------------------------
(* C36: in withFallback([withRetry(A, {retries: a}), withRetry(B,           *)
(* {retries: b})]), A being provider 0 and B provider 1.                    *)

Stacked ==
    /\ souter = "fallback" /\ Len(swraps) = 2
    /\ swraps[1].retry /\ swraps[2].retry

\* how often provider p has been invoked
InvocationsOf(p) == Cardinality({k \in DOMAIN sinv : sinv[k].p = p})

\* the attempts of provider p that have ended, in order
EndedOf(p) == SelectSeq(shist, LAMBDA h : h.p = p)

\* A's attempts have ended in failure as the claim has it: A was invoked
\* a + 1 times and failed each time with a transient error, or A's last
\* attempt raised an error that is not transient
EndedInFailure(p) ==
    LET ea == EndedOf(p)
    IN /\ ea # <<>>
       /\ Len(ea) = InvocationsOf(p)
       /\ \A k \in DOMAIN ea : ea[k].end = "threw"
       /\ \/ /\ Len(ea) = swraps[p + 1].retries + 1
             /\ \A k \in DOMAIN ea : TransientByStatus(ea[k].error)
          \/ ~TransientByStatus(ea[Len(ea)].error)

\* A's last attempt raised while the caller's signal was aborted
EndedAborted(p) ==
    LET ea == EndedOf(p)
    IN /\ ea # <<>>
       /\ Len(ea) = InvocationsOf(p)
       /\ \A k \in DOMAIN ea : ea[k].end = "threw"
       /\ ea[Len(ea)].sig

InvocationBounds ==
    /\ InvocationsOf(0) <= swraps[1].retries + 1
    /\ InvocationsOf(1) <= swraps[2].retries + 1

BothFailed ==
    sout = "threw" =>
       LET eb == EndedOf(1)
       IN eb # <<>> /\ eb[Len(eb)].end = "threw" /\ sthrown = eb[Len(eb)].error

\* C36 as stated: B is invoked only after A's attempts have ended in
\* failure (a + 1 transient failures, or a non-transient error); A is
\* invoked at most a + 1 times and B at most b + 1 times; when both fail the
\* caller receives the error of B's last attempt.
C36_AsStated ==
    Stacked =>
       /\ InvocationsOf(1) >= 1 => EndedInFailure(0)
       /\ InvocationBounds
       /\ BothFailed

\* C36, amended: B is invoked only after A's attempts have ended in
\* failure, that is after a + 1 transient failures of A, or after A raised
\* a non-transient error, or after A raised while the caller's signal was
\* aborted; A is invoked at most a + 1 times and B at most b + 1 times; when
\* both fail the caller receives the error of B's last attempt.
C36_Composition ==
    Stacked =>
       /\ InvocationsOf(1) >= 1 => (EndedInFailure(0) \/ EndedAborted(0))
       /\ InvocationBounds
       /\ BothFailed

\* both fail, each after its retry, the signal never aborted
C36_Witness ==
    /\ Stacked /\ swraps[1].retries = 1 /\ swraps[2].retries = 1
    /\ sout = "threw" /\ ~ssig
    /\ InvocationsOf(0) = 2 /\ InvocationsOf(1) = 2
    /\ sthrown.status = 500

-----------------------------------------------------------------------------
(* C37: the wrappers preserve the termination invariant.  If every attempt  *)
(* of every provider that has ended either returned having yielded one      *)
(* done=true chunk, its last, or threw without having yielded done=true,    *)
(* then a stream of withRetry or withFallback that has ended holds exactly  *)
(* one done=true chunk, its last chunk, and a stream that has raised holds  *)
(* none.                                                                   *)

WellFormedAttempt(h) ==
    /\ h.end = "ok" => h.done
    /\ h.end = "threw" => ~h.done

DoneChunks == {k \in DOMAIN sdel : sdel[k].done}

C37_TerminationPreserved ==
    (\A k \in DOMAIN shist : WellFormedAttempt(shist[k])) =>
       /\ sout = "returned" => DoneChunks = {Len(sdel)} /\ sdel # <<>>
       /\ sout = "threw" => DoneChunks = {}

\* a stream that ended after a failed attempt of the first provider had
\* delivered a chunk and the retry of the second had delivered the rest
C37_Witness ==
    /\ Stacked /\ sout = "returned"
    /\ Len(shist) = 3
    /\ shist[1].p = 0 /\ shist[1].end = "threw" /\ shist[1].chunks = 1
    /\ shist[2].p = 1 /\ shist[2].end = "threw"
    /\ shist[3].p = 1 /\ shist[3].end = "ok" /\ shist[3].chunks = 2
    /\ DoneChunks = {Len(sdel)} /\ Len(sdel) = 3

-----------------------------------------------------------------------------
(* C38: withFallback advances on every error, without classifying it.       *)
(* Whenever an error leaves provider i (a non-transient error, an error     *)
(* raised while the caller's signal is aborted, or any other), the step     *)
(* moves the loop to provider i + 1, which is then to be invoked if there   *)
(* is one; and a call of withFallback raises only when every provider of    *)
(* the list has been invoked.                                              *)

\* in this step an error reached withFallback's catch block, or the consumer
ErrorLeftProvider ==
    /\ spc = "iter"
    /\ Len(shist') = Len(shist) + 1
    /\ shist'[Len(shist')].end = "threw"
    /\ spc' # "sleep"

C38_AdvancesOnEveryError ==
    /\ []((souter = "fallback" /\ sout = "threw")
             => \A p \in 0..(Len(swraps) - 1) : InvocationsOf(p) >= 1)
    /\ []((souter = "fallback" /\ spc = "call" /\ si < Len(swraps))
             => ENABLED StInvoke)
    /\ [][(souter = "fallback" /\ ErrorLeftProvider)
             => /\ si' = si + 1
                /\ spc' = "call"
                /\ sout' = "pending"]_vars

\* the first provider raised status 401 with the signal aborted, and the
\* second was invoked
C38_Witness ==
    /\ souter = "fallback" /\ Len(swraps) = 2
    /\ Len(shist) >= 1 /\ shist[1].p = 0 /\ shist[1].end = "threw"
    /\ shist[1].error.status = 401 /\ shist[1].sig
    /\ Len(sinv) = 2 /\ sinv[2].p = 1 /\ sinv[2].sig

====
